---- MODULE Spec2Model ----
(***************************************************************************)
(* A model of the load-testing engine of APITester:                        *)
(*   - RateLimiter            (src/utils/concurrencyutil.py)                *)
(*   - ConcurrentExecutor     (src/utils/concurrencyutil.py)                *)
(*   - PerformanceTester ramp (src/utils/requestsutil.py)                   *)
(* Each component has its own specification (SpecLimiter, SpecExecutor,    *)
(* SpecRamp) over the shared variable list; the variables of the other     *)
(* components stay at their initial values.                                 *)
(***************************************************************************)
EXTENDS Integers, Sequences, FiniteSets, Bags, TLC

(***************************************************************************)
(* Bounds of the model.                                                    *)
(***************************************************************************)
\* clock ticks per time_unit of the RateLimiter (resolution of the clock)
TicksPerUnit == 2
\* largest rate / burst capacity / new_rate given to the RateLimiter
MaxRate == 2
\* threads calling RateLimiter.wait concurrently
NumCallers == 2
\* ticks the limiter clock advances past construction time
MaxTime == 2
\* ticks of the limiter clock when the sliding window is followed
MaxWindowTime == 3
\* largest finite timeout passed to wait(), in ticks
MaxTimeout == 1
\* wait() calls made in one behaviour
MaxCalls == 3

\* work items submitted to the ConcurrentExecutor
MaxTasks == 2
\* largest initial pool size / min_concurrency / max_concurrency
MaxWorkers == 3
\* number of executor clock steps in one behaviour
MaxExecSteps == 1

\* largest start / max level given to find_max_concurrency and find_max_tps
MaxLevel == 3
\* largest step given to them
MaxStep == 2
\* largest start / max level given to the level-sequence generation alone
MaxGenLevel == 6
\* largest step given to it
MaxGenStep == 2
\* longest list of samples given to _calculate_percentile, and largest sample
MaxSamples == 3
MaxSampleValue == 3

\* last instant, in seconds, of the executor followed across the growth hold-off
MaxHoldoffTime == 22

\* calls of set_max_concurrency that change the pool size
MaxResizes == 1

\* largest tps level of the searches of find_max_tps followed with their limiter
MaxTpsLevel == 6

\* largest number of requests one trial completes
MaxRequests == 3
\* largest max level of a search whose trials are followed request by request
MaxTrialLevel == 2
\* largest number of requests such a trial makes
MaxTrialRequests == 2

Min(a, b) == IF a <= b THEN a ELSE b
Max(a, b) == IF a >= b THEN a ELSE b
\* least integer >= n / d, for d > 0
CeilDiv(n, d) == (n + d - 1) \div d

VARIABLES
  \* ---- time.time(), in ticks
  clock,
  \* ---- RateLimiter fields
  mode, rate, capacity, tokens, last_request_time, last_token_time,
  request_count, rejected_count,
  \* ---- RateLimiter.lock and the callers of wait()
  lock, pc, start_wait_time, timeout, wake_at,
  \* ---- ConcurrentExecutor fields
  max_workers, pools, active_tasks, total_tasks, task_errors, successful_tasks,
  task_times, results_queue, error_types,
  adaptive_concurrency, target_tps, min_concurrency, max_concurrency,
  error_threshold, last_adjustment_time, concurrency_history,
  \* ---- the work items (each run of _worker_wrapper) and the driver thread
  task_st, task_pool, task_start_time, adj_now, adj_tps, driver,
  \* ---- PerformanceTester: the running find_max_concurrency / find_max_tps call
  ramp_pc, test_type, scaling_strategy, start_value, max_value, step, duration,
  sequence, position, results, best_concurrency, best_tps, best_avg_response_time,
  stop_event, report,
  \* ---- the trial being run by _run_concurrent_tests, request by request
  stop_time, in_flight, exited, trial_requests, trial_errors, trial_time,
  trial_error_types, counting,
  \* ---- a call of RateLimiter._calculate_percentile: arguments, value returned
  data, percentile, returned,
  \* ---- a level sequence being generated, loop iteration by loop iteration
  gen_pc, gen_strategy, gen_start, gen_max, gen_step, current, levels,
  \* ---- http_client.rate_limiter, and the value find_max_tps saved of it
  rate_limiter, original_rate_limiter,
  \* ---- the paths and path_weights arguments of the search, and the
  \* ---- path_results of the trial being run (requests and failures per path)
  paths, path_weights, path_total, path_errors,
  \* ---- whether a rate limiter is attached to the ConcurrentExecutor
  exec_rate_limiter,
  \* ---- RateLimiter: the samples kept by the record block of wait()
  request_timestamps, wait_times, window_requests

limiterVars == << mode, rate, capacity, tokens, last_request_time, last_token_time,
                  request_count, rejected_count,
                  lock, pc, start_wait_time, timeout, wake_at >>

executorVars == << max_workers, pools, active_tasks, total_tasks, task_errors,
                   successful_tasks, task_times, results_queue, error_types,
                   adaptive_concurrency, target_tps, min_concurrency, max_concurrency,
                   error_threshold, last_adjustment_time, concurrency_history,
                   task_st, task_pool, task_start_time, adj_now, adj_tps, driver >>

rampVars == << ramp_pc, test_type, scaling_strategy, start_value, max_value, step,
               duration, sequence, position, results, best_concurrency, best_tps,
               best_avg_response_time, stop_event, report >>

trialVars == << stop_time, in_flight, exited, trial_requests, trial_errors, trial_time,
                trial_error_types, counting >>

statsVars == << data, percentile, returned >>

levelVars == << gen_pc, gen_strategy, gen_start, gen_max, gen_step, current, levels >>

clientVars == << rate_limiter, original_rate_limiter >>

pathVars == << paths, path_weights, path_total, path_errors >>

attachVars == << exec_rate_limiter >>

recordVars == << request_timestamps, wait_times, window_requests >>

vars == << clock, limiterVars, executorVars, rampVars, trialVars, statsVars, levelVars,
          clientVars, pathVars, attachVars, recordVars >>

(***************************************************************************)
(* RateLimiter                                                             *)
(*                                                                         *)
(* Times are integers (ticks); time_unit is TimeUnit ticks.  Quantities    *)
(* that are fractions in the code are kept exact as numerators:            *)
(*   tokens      holds  self.tokens * TimeUnit                             *)
(*   a wait_time is a pair <<n, d>> for the code's wait_time = n / d ticks *)
(* self.interval is time_unit / rate throughout (set together with rate    *)
(* in __init__ and update_rate), so it is not stored.                      *)
(***************************************************************************)
Callers == 1..NumCallers
Modes == {"fixed", "token_bucket"}
TimeUnit == TicksPerUnit
\* time.time() when the limiter is constructed: far more than one interval after 0
Epoch == TimeUnit
NoTimeout == 0 - 1
Timeouts == {NoTimeout} \cup (0..MaxTimeout)
NoOwner == 0
\* self.window_size = 1.0, in ticks (time_unit is one second)
WindowSize == TimeUnit
\* _cleanup_old_data keeps the last 1000 samples
SampleCap == 1000

\* q[-n:] when q is longer than n, else q
KeepLast(q, n) == IF Len(q) > n THEN SubSeq(q, Len(q) - n + 1, Len(q)) ELSE q

\* _add_tokens, as (tokens, last_token_time) after the call at time now
AddTokens(tok, ltt, cap, now) ==
  IF now - ltt > 0
    THEN [tokens |-> Min(cap * TimeUnit, tok + (now - ltt) * cap), last_token_time |-> now]
    ELSE [tokens |-> tok, last_token_time |-> ltt]

\* (mutant) the interval taken as rate / time_unit
FixedWaitTimeInverted(now, lrt, r) == << Max(0, r - (now - lrt) * TimeUnit), TimeUnit >>

\* fixed mode: wait_time = max(0, interval - (now - last_request_time)), as <<n, d>>
FixedWaitTime(now, lrt, r) == << Max(0, TimeUnit - (now - lrt) * r), r >>

\* (mutant) half the time the missing part of a token takes to arrive
TokenWaitTimeHalved(tok, cap) == << TimeUnit - tok, 2 * cap >>

\* token bucket: wait_time = (1 - tokens) * (time_unit / capacity), as <<n, d>>
TokenWaitTime(tok, cap) == << TimeUnit - tok, cap >>

\* (mutant) a single token left is not enough
NoTokenInclusive(tok) == tok <= TimeUnit

\* "if self.tokens < 1"
NoToken(tok) == tok < TimeUnit

\* (mutant) a wait equal to the timeout is rejected too
TimedOutInclusive(to, wt) == to # NoTimeout /\ wt[1] >= to * wt[2]

\* "timeout is not None and wait_time > timeout"
TimedOut(to, wt) == to # NoTimeout /\ wt[1] > to * wt[2]

\* the first clock value at which time.sleep(wait_time), begun at now, has ended
SleepEnd(now, wt) == now + CeilDiv(wt[1], wt[2])

InFlight == Cardinality({t \in Callers : pc[t] # "idle"})

\* RateLimiter(rate = r, mode = m, burst_capacity = c), constructed at Epoch
LimiterAt(m, r, c) ==
  /\ mode = m
  /\ rate = r
  /\ capacity = c
  /\ tokens = c * TimeUnit
  /\ last_request_time = 0
  /\ last_token_time = Epoch
  /\ request_count = 0
  /\ rejected_count = 0
  /\ lock = NoOwner
  /\ pc = [t \in Callers |-> "idle"]
  /\ start_wait_time = [t \in Callers |-> 0]
  /\ timeout = [t \in Callers |-> NoTimeout]
  /\ wake_at = [t \in Callers |-> 0]
  /\ request_timestamps = << >>
  /\ wait_times = << >>
  /\ window_requests = << >>

\* wait(timeout) is invoked: start_wait_time = time.time(), then "with self.lock"
WaitCall(t) ==
  /\ UNCHANGED << recordVars, attachVars, statsVars, levelVars, pathVars, clientVars, executorVars, rampVars, trialVars >>
  /\ pc[t] = "idle"
  /\ request_count + rejected_count + InFlight < MaxCalls
  /\ \E to \in Timeouts : timeout' = [timeout EXCEPT ![t] = to]
  /\ pc' = [pc EXCEPT ![t] = "lock"]
  /\ start_wait_time' = [start_wait_time EXCEPT ![t] = clock]
  /\ UNCHANGED << recordVars, attachVars, statsVars, levelVars, pathVars, clientVars, clock, mode, rate, capacity, tokens, last_request_time,
                  last_token_time, request_count, rejected_count, lock, wake_at >>

\* wait() returns: its locals are gone
Return(t) ==
  /\ pc' = [pc EXCEPT ![t] = "idle"]
  /\ start_wait_time' = [start_wait_time EXCEPT ![t] = 0]
  /\ timeout' = [timeout EXCEPT ![t] = NoTimeout]
  /\ wake_at' = [wake_at EXCEPT ![t] = 0]
  /\ lock' = NoOwner

\* "rejected_count += 1; return False"
Reject(t) ==
  /\ rejected_count' = rejected_count + 1
  /\ Return(t)
  /\ UNCHANGED << recordVars, attachVars, statsVars, levelVars, pathVars, clientVars, request_count, last_request_time >>

\* time.sleep(wait_time) with the lock held; timeout is not read again
Sleep(t, wt) ==
  /\ lock' = t
  /\ wake_at' = [wake_at EXCEPT ![t] = SleepEnd(clock, wt)]
  /\ pc' = [pc EXCEPT ![t] = "sleep"]
  /\ timeout' = [timeout EXCEPT ![t] = NoTimeout]
  /\ UNCHANGED << recordVars, attachVars, statsVars, levelVars, pathVars, clientVars, start_wait_time, request_count, rejected_count,
                  last_request_time >>

\* (mutant) no recorded request ever leaves the window
InWindowAlways(ts, current_time) == TRUE

\* "current_time - ts <= self.window_size"
InWindow(ts, current_time) == current_time - ts <= WindowSize

\* _update_sliding_window(current_time)
UpdateSlidingWindow(window, current_time) ==
  Append(SelectSeq(window, LAMBDA ts : InWindow(ts, current_time)), current_time)

\* the record block of wait(): "request_count += 1", the two samples,
\* _update_sliding_window and _cleanup_old_data, then "return True"
Grant(t) ==
  /\ request_count' = request_count + 1
  /\ request_timestamps' = KeepLast(Append(request_timestamps, clock), SampleCap)
  /\ wait_times' = KeepLast(Append(wait_times, clock - start_wait_time[t]), SampleCap)
  /\ window_requests' = UpdateSlidingWindow(window_requests, clock)
  /\ Return(t)
  /\ UNCHANGED rejected_count

\* the lock is acquired, fixed mode: up to the sleep or the return
WaitEnterFixed(t) ==
  /\ UNCHANGED << attachVars, statsVars, levelVars, pathVars, clientVars, executorVars, rampVars, trialVars >>
  /\ pc[t] = "lock" /\ lock = NoOwner /\ mode = "fixed"
  /\ LET wt == FixedWaitTime(clock, last_request_time, rate) IN
       IF TimedOut(timeout[t], wt)
         THEN Reject(t)
         ELSE IF wt[1] > 0
           THEN Sleep(t, wt)
           ELSE /\ last_request_time' = clock
                /\ Grant(t)
  /\ UNCHANGED << attachVars, statsVars, levelVars, pathVars, clientVars, clock, mode, rate, capacity, tokens, last_token_time >>

\* the lock is acquired, token-bucket mode: up to the sleep or the return
WaitEnterToken(t) ==
  /\ UNCHANGED << attachVars, statsVars, levelVars, pathVars, clientVars, executorVars, rampVars, trialVars >>
  /\ pc[t] = "lock" /\ lock = NoOwner /\ mode = "token_bucket"
  /\ LET a == AddTokens(tokens, last_token_time, capacity, clock)
         wt == TokenWaitTime(a.tokens, capacity) IN
       /\ last_token_time' = a.last_token_time
       /\ IF NoToken(a.tokens)
            THEN /\ tokens' = a.tokens
                 /\ IF TimedOut(timeout[t], wt) THEN Reject(t) ELSE Sleep(t, wt)
            ELSE /\ tokens' = a.tokens - TimeUnit
                 /\ Grant(t)
                 /\ UNCHANGED last_request_time
  /\ UNCHANGED << attachVars, statsVars, levelVars, pathVars, clientVars, clock, mode, rate, capacity >>

\* time.sleep returns, fixed mode: last_request_time = time.time(), then the record
WaitWakeFixed(t) ==
  /\ UNCHANGED << attachVars, statsVars, levelVars, pathVars, clientVars, executorVars, rampVars, trialVars >>
  /\ pc[t] = "sleep" /\ mode = "fixed" /\ clock >= wake_at[t]
  /\ last_request_time' = clock
  /\ Grant(t)
  /\ UNCHANGED << attachVars, statsVars, levelVars, pathVars, clientVars, clock, mode, rate, capacity, tokens, last_token_time >>

\* time.sleep returns, token-bucket mode: _add_tokens(), tokens -= 1, then the record
WaitWakeToken(t) ==
  /\ UNCHANGED << attachVars, statsVars, levelVars, pathVars, clientVars, executorVars, rampVars, trialVars >>
  /\ pc[t] = "sleep" /\ mode = "token_bucket" /\ clock >= wake_at[t]
  /\ LET a == AddTokens(tokens, last_token_time, capacity, clock) IN
       /\ tokens' = a.tokens - TimeUnit
       /\ last_token_time' = a.last_token_time
  /\ Grant(t)
  /\ UNCHANGED << attachVars, statsVars, levelVars, pathVars, clientVars, clock, mode, rate, capacity, last_request_time >>

\* update_rate(new_rate), under the lock
UpdateRate ==
  /\ UNCHANGED << recordVars, attachVars, statsVars, levelVars, pathVars, clientVars, executorVars, rampVars, trialVars >>
  /\ lock = NoOwner
  /\ \E new_rate \in 1..MaxRate :
       /\ new_rate # rate
       /\ rate' = new_rate
       /\ capacity' = new_rate
       /\ LET a == AddTokens(tokens, last_token_time, new_rate, clock) IN
            /\ tokens' = a.tokens
            /\ last_token_time' = a.last_token_time
  /\ UNCHANGED << recordVars, attachVars, statsVars, levelVars, pathVars, clientVars, clock, mode, last_request_time, request_count, rejected_count,
                  lock, pc, start_wait_time, timeout, wake_at >>

\* get_stats(): the dictionary returned by the definition of get_stats that
\* the class ends up with (of the two in the class body, the later one);
\* the fields computed from time.time() are left out, and configured_rate =
\* rate / time_unit is the pair << rate, TimeUnit >>
GetStats ==
  [total_requests |-> request_count,
   configured_rate |-> << rate, TimeUnit >>,
   mode |-> mode]

\* time passes, up to the end of a sliding window that began after the
\* construction; taking a free lock takes no time
WindowTick ==
  /\ UNCHANGED << recordVars, attachVars, statsVars, levelVars, pathVars, clientVars, executorVars, rampVars, trialVars >>
  /\ clock < Epoch + MaxWindowTime
  /\ ~ (lock = NoOwner /\ \E t \in Callers : pc[t] = "lock")
  /\ clock' = clock + 1
  /\ UNCHANGED limiterVars

\* time passes; taking a free lock takes no time
Tick ==
  /\ UNCHANGED << recordVars, attachVars, statsVars, levelVars, pathVars, clientVars, executorVars, rampVars, trialVars >>
  /\ clock < Epoch + MaxTime
  /\ ~ (lock = NoOwner /\ \E t \in Callers : pc[t] = "lock")
  /\ clock' = clock + 1
  /\ UNCHANGED limiterVars

(***************************************************************************)
(* ConcurrentExecutor                                                      *)
(*                                                                         *)
(* The executor clock counts seconds.  A pool (ThreadPoolExecutor) is a    *)
(* record [size, shutdown]; pools is the list of the pools created so far  *)
(* and self.executor is the last of them.  A work item i goes through      *)
(*   new -> queued                   (submit, on the driver thread)        *)
(*   -> running -> finalized         (_worker_wrapper, on a pool thread)   *)
(*   -> [adjusting] -> done          (_adjust_concurrency)                 *)
(* current_tps is the fraction <<n, d>>; target_tps is in tenths per       *)
(* second; error_threshold is in percent.                                  *)
(***************************************************************************)
Tasks == 1..MaxTasks
\* error_threshold default 0.05, in percent
DefaultErrorThreshold == 5
\* concurrency_adjustment_interval default, seconds
AdjustmentInterval == 2
\* "now - concurrency_history[-1][1] > 10"
GrowthHoldoff == 10
\* "only keep the last 100" adjustments
HistoryCap == 100
\* "only keep the last 1000" task times
TaskTimesCap == 1000
NoTarget == 0
\* seconds by which the executor clock advances in one step: enough to pass
\* the adjustment interval and the growth holdoff
ExecStep == GrowthHoldoff + 1
\* the arguments tried: target_tps in tenths (0.1 and 2.0 per second),
\* min_concurrency, max_concurrency (0: None), and the initial max_workers
TargetValues == {1, 20}
MinValues == {1, MaxWorkers}
MaxValues == {0, 1, MaxWorkers}
InitialWorkers == {1, MaxWorkers}
\* error_threshold in percent (the default 0.05, and 0.5)
ErrorThresholds == {DefaultErrorThreshold, 50}
\* the exception types a work item may raise
ErrorTypeNames == {"ValueError", "TimeoutError"}
\* the type of Exception("Rate limiting timeout")
RateLimitError == "Exception"

RECURSIVE SeqSum(_)
SeqSum(q) == IF q = << >> THEN 0 ELSE Head(q) + SeqSum(Tail(q))

\* the last n elements of q
LastN(q, n) == IF Len(q) > n THEN SubSeq(q, Len(q) - n + 1, Len(q)) ELSE q

\* the pool, the counters and the work items of a ConcurrentExecutor(max_workers
\* = mw) constructed at time t0
PoolAt(mw, t0) ==
  /\ max_workers = mw
  /\ pools = << [size |-> mw, shutdown |-> FALSE] >>
  /\ active_tasks = 0
  /\ total_tasks = 0
  /\ task_errors = 0
  /\ successful_tasks = 0
  /\ task_times = << >>
  /\ results_queue = EmptyBag
  /\ error_types = [e \in ErrorTypeNames \cup {RateLimitError} |-> 0]
  /\ last_adjustment_time = t0
  /\ concurrency_history = << << mw, t0 >> >>
  /\ task_st = [i \in Tasks |-> "new"]
  /\ task_pool = [i \in Tasks |-> 0]
  /\ task_start_time = [i \in Tasks |-> 0]
  /\ adj_now = [i \in Tasks |-> 0]
  /\ adj_tps = [i \in Tasks |-> << 0, 1 >>]
  /\ driver = "submitting"

\* ConcurrentExecutor(max_workers = mw), constructed at time t0
ExecutorAt(mw, t0) ==
  /\ PoolAt(mw, t0)
  /\ adaptive_concurrency = FALSE
  /\ target_tps = NoTarget
  /\ min_concurrency = 1
  /\ max_concurrency = mw
  /\ error_threshold = DefaultErrorThreshold

\* ConcurrentExecutor(max_workers = mw) followed at once by
\* enable_adaptive_concurrency(target_tps = target)
AdaptiveExecutorAt(mw, t0, target) ==
  /\ PoolAt(mw, t0)
  /\ adaptive_concurrency = TRUE
  /\ target_tps = target
  /\ min_concurrency = 1
  /\ max_concurrency = mw
  /\ error_threshold = DefaultErrorThreshold

\* self.executor: the index of the current pool
executor == Len(pools)

\* the pool threads busy in pool g
Busy(g) ==
  Cardinality({i \in Tasks : task_pool[i] = g
                 /\ task_st[i] \in {"waiting", "running", "finalized", "adjusting"}})

\* get_current_tps(), as <<n, d>>
CurrentTps(times, active) ==
  IF Len(times) < 2 THEN << 0, 1 >>
  ELSE IF SeqSum(times) > 0 THEN << active * Len(times), SeqSum(times) >>
  ELSE << 0, 1 >>

\* "error_rate > self.error_threshold", error_rate = task_errors / total_tasks or 0.0
ErrorRateHigh(errors, total, threshold) ==
  total > 0 /\ errors * 100 > threshold * total

\* "current_tps < self.target_tps * 0.9"
TpsLow(tps, target) == tps[1] * 100 < 9 * target * tps[2]

\* "current_tps > self.target_tps * 1.2"
TpsHigh(tps, target) == tps[1] * 100 > 12 * target * tps[2]

\* the executor is restarted with n workers: the old pool is shut down without waiting
Restart(n) ==
  pools' = Append([pools EXCEPT ![executor].shutdown = TRUE],
                  [size |-> n, shutdown |-> FALSE])

\* enable_adaptive_concurrency(target, mn, mx, threshold), called before the
\* first submit; mx = 0 stands for max_concurrency = None, and
\* adjustment_interval is left at its default
EnableAdaptiveConcurrency ==
  /\ ~ adaptive_concurrency
  /\ driver = "submitting" /\ \A i \in Tasks : task_st[i] = "new"
  /\ \E target \in TargetValues, mn \in MinValues, mx \in MaxValues,
        threshold \in ErrorThresholds :
       /\ adaptive_concurrency' = TRUE
       /\ target_tps' = target
       /\ min_concurrency' = Max(1, mn)
       /\ max_concurrency' = IF mx # 0 THEN mx ELSE max_workers
       /\ error_threshold' = threshold
       /\ last_adjustment_time' = clock
  /\ UNCHANGED << recordVars, attachVars, statsVars, levelVars, pathVars, clientVars, clock, limiterVars, rampVars, trialVars, error_types, max_workers, pools, active_tasks, total_tasks,
                  task_errors, successful_tasks, task_times, results_queue,
                  concurrency_history, task_st, task_pool, task_start_time,
                  adj_now, adj_tps, driver >>

\* the driver thread is inside submit() for item i
Submitting(i) == task_st[i] \in {"counted", "loaded"}

\* submit(), the block under self.tasks_lock: the item is counted as active
\* before it is handed to a pool; the driver submits the items one after the other
Submit(i) ==
  /\ driver = "submitting"
  /\ task_st[i] = "new"
  /\ \A j \in Tasks : j < i => task_st[j] # "new" /\ ~ Submitting(j)
  /\ active_tasks' = active_tasks + 1
  /\ total_tasks' = total_tasks + 1
  /\ task_st' = [task_st EXCEPT ![i] = "counted"]
  /\ UNCHANGED << recordVars, attachVars, statsVars, levelVars, pathVars, clientVars, clock, limiterVars, rampVars, trialVars, error_types, max_workers, pools, task_errors,
                  successful_tasks, task_times, results_queue, adaptive_concurrency,
                  target_tps, min_concurrency, max_concurrency, error_threshold,
                  last_adjustment_time, concurrency_history,
                  task_pool, task_start_time, adj_now, adj_tps, driver >>

\* submit(), after the lock is released: "self.executor" is read
SubmitLoad(i) ==
  /\ task_st[i] = "counted"
  /\ task_pool' = [task_pool EXCEPT ![i] = executor]
  /\ task_st' = [task_st EXCEPT ![i] = "loaded"]
  /\ UNCHANGED << recordVars, attachVars, statsVars, levelVars, pathVars, clientVars, clock, limiterVars, rampVars, trialVars, error_types, max_workers, pools, active_tasks,
                  total_tasks, task_errors,
                  successful_tasks, task_times, results_queue, adaptive_concurrency,
                  target_tps, min_concurrency, max_concurrency, error_threshold,
                  last_adjustment_time, concurrency_history,
                  task_start_time, adj_now, adj_tps, driver >>

\* submit(), the call of the pool's submit: a ThreadPoolExecutor that was shut
\* down raises RuntimeError, which submit() passes to its caller
SubmitDispatch(i) ==
  /\ task_st[i] = "loaded"
  /\ task_st' = [task_st EXCEPT ![i] =
                   IF pools[task_pool[i]].shutdown THEN "rejected" ELSE "queued"]
  /\ UNCHANGED << recordVars, attachVars, statsVars, levelVars, pathVars, clientVars, clock, limiterVars, rampVars, trialVars, error_types, max_workers, pools, active_tasks,
                  total_tasks, task_errors,
                  successful_tasks, task_times, results_queue, adaptive_concurrency,
                  target_tps, min_concurrency, max_concurrency, error_threshold,
                  last_adjustment_time, concurrency_history,
                  task_pool, task_start_time, adj_now, adj_tps, driver >>

\* (mutant) a pool that was shut down runs nothing more
RunnableUnlessShutdown(g) == Busy(g) < pools[g].size /\ ~ pools[g].shutdown

\* pool g has a free thread for a queued item; shutdown(wait=False) leaves
\* the items already queued to be run
Runnable(g) == Busy(g) < pools[g].size

\* the tuple (task_id, args, kwargs, result, e) put on the results queue; e is
\* the name of the exception's type, or "None"
ResultTuple(i, e) == [task_id |-> i, error |-> e]

\* (mutant) the count of the error type is set, not incremented
CountErrorOnce(types, e) == [types EXCEPT ![e] = 1]

\* "self.error_types[error_type] = self.error_types.get(error_type, 0) + 1"
CountError(types, e) == [types EXCEPT ![e] = @ + 1]

\* (mutant) the work item runs at once, limiter or not
StartStateIgnoringLimiter(attached) == "running"

\* "if self.rate_limiter:": with a limiter the wrapper calls wait() before func
StartState(attached) == IF attached THEN "waiting" ELSE "running"

\* _worker_wrapper begins on a free thread of the item's pool:
\* task_start_time = time.time(); active_tasks += 1
WorkerStart(i) ==
  /\ task_st[i] = "queued"
  /\ Runnable(task_pool[i])
  /\ task_start_time' = [task_start_time EXCEPT ![i] = clock]
  /\ active_tasks' = active_tasks + 1
  /\ task_st' = [task_st EXCEPT ![i] = StartState(exec_rate_limiter)]
  /\ UNCHANGED << recordVars, attachVars, statsVars, levelVars, pathVars, clientVars, clock, limiterVars, rampVars, trialVars, error_types, max_workers, pools, total_tasks, task_errors,
                  successful_tasks, task_times, results_queue, adaptive_concurrency,
                  target_tps, min_concurrency, max_concurrency, error_threshold,
                  last_adjustment_time, concurrency_history, task_pool,
                  adj_now, adj_tps, driver >>

\* the finally block: active_tasks -= 1; total_tasks += 1; task_times.append(...)
Finally(i) ==
  /\ active_tasks' = active_tasks - 1
  /\ total_tasks' = total_tasks + 1
  /\ LET appended == Append(task_times, clock - task_start_time[i]) IN
       task_times' = IF Len(appended) > TaskTimesCap THEN Tail(appended) ELSE appended
  /\ task_start_time' = [task_start_time EXCEPT ![i] = 0]
  /\ task_st' = [task_st EXCEPT ![i] = "finalized"]

\* func returns: successful_tasks += 1 and (task_id, ..., result, None) is queued;
\* then the finally block
WorkerSuccess(i) ==
  /\ task_st[i] = "running"
  /\ successful_tasks' = successful_tasks + 1
  /\ results_queue' = results_queue (+) SetToBag({ResultTuple(i, "None")})
  /\ Finally(i)
  /\ UNCHANGED << recordVars, attachVars, statsVars, levelVars, pathVars, clientVars, clock, limiterVars, rampVars, trialVars, error_types, max_workers, pools, task_errors,
                  adaptive_concurrency, target_tps, min_concurrency, max_concurrency,
                  error_threshold, last_adjustment_time, concurrency_history,
                  task_pool, adj_now, adj_tps, driver >>

\* func raises: task_errors += 1 and (task_id, ..., None, e) is queued;
\* then the finally block
WorkerError(i) ==
  /\ task_st[i] = "running"
  /\ task_errors' = task_errors + 1
  /\ \E e \in ErrorTypeNames :
       /\ error_types' = CountError(error_types, e)
       /\ results_queue' = results_queue (+) SetToBag({ResultTuple(i, e)})
  /\ Finally(i)
  /\ UNCHANGED << recordVars, attachVars, statsVars, levelVars, pathVars, clientVars, clock, limiterVars, rampVars, trialVars, max_workers, pools, successful_tasks,
                  adaptive_concurrency, target_tps, min_concurrency, max_concurrency,
                  error_threshold, last_adjustment_time, concurrency_history,
                  task_pool, adj_now, adj_tps, driver >>

\* self.rate_limiter.wait() returns True: func is called next
WorkerPermit(i) ==
  /\ task_st[i] = "waiting"
  /\ task_st' = [task_st EXCEPT ![i] = "running"]
  /\ UNCHANGED << recordVars, attachVars, statsVars, levelVars, pathVars, clientVars, clock, limiterVars, rampVars, trialVars, error_types, max_workers, pools,
                  active_tasks, total_tasks, task_errors,
                  successful_tasks, task_times, results_queue, adaptive_concurrency,
                  target_tps, min_concurrency, max_concurrency, error_threshold,
                  last_adjustment_time, concurrency_history, task_pool,
                  task_start_time, adj_now, adj_tps, driver >>

\* self.rate_limiter.wait() returns False: Exception("Rate limiting timeout")
\* is raised and handled as an exception of the work item, func is not called;
\* then the finally block
WorkerRefused(i) ==
  /\ task_st[i] = "waiting"
  /\ task_errors' = task_errors + 1
  /\ error_types' = CountError(error_types, RateLimitError)
  /\ results_queue' = results_queue (+) SetToBag({ResultTuple(i, RateLimitError)})
  /\ Finally(i)
  /\ UNCHANGED << recordVars, attachVars, statsVars, levelVars, pathVars, clientVars, clock, limiterVars, rampVars, trialVars, max_workers, pools, successful_tasks,
                  adaptive_concurrency, target_tps, min_concurrency, max_concurrency,
                  error_threshold, last_adjustment_time, concurrency_history,
                  task_pool, adj_now, adj_tps, driver >>

\* "if self.adaptive_concurrency: self._adjust_concurrency()", up to the lock:
\* the two early returns, now = time.time() and current_tps = get_current_tps()
AdjustCheck(i) ==
  /\ task_st[i] = "finalized"
  /\ IF adaptive_concurrency /\ target_tps # NoTarget
          /\ ~ (clock - last_adjustment_time < AdjustmentInterval)
       THEN /\ adj_now' = [adj_now EXCEPT ![i] = clock]
            /\ adj_tps' = [adj_tps EXCEPT ![i] = CurrentTps(task_times, active_tasks)]
            /\ task_st' = [task_st EXCEPT ![i] = "adjusting"]
       ELSE /\ task_st' = [task_st EXCEPT ![i] = "done"]
            /\ UNCHANGED << adj_now, adj_tps >>
  /\ UNCHANGED << recordVars, attachVars, statsVars, levelVars, pathVars, clientVars, clock, limiterVars, rampVars, trialVars, error_types, max_workers, pools, active_tasks, total_tasks,
                  task_errors, successful_tasks, task_times, results_queue,
                  adaptive_concurrency, target_tps, min_concurrency, max_concurrency,
                  error_threshold, last_adjustment_time, concurrency_history,
                  task_pool, task_start_time, driver >>

\* (mutant) growth is allowed again when exactly the hold-off has passed
HoldoffOverInclusive(now, history) ==
  Len(history) > 0 /\ now - history[Len(history)][2] >= GrowthHoldoff

\* "len(self.concurrency_history) > 0 and now - self.concurrency_history[-1][1] > 10"
HoldoffOver(now, history) ==
  Len(history) > 0 /\ now - history[Len(history)][2] > GrowthHoldoff

\* the size _adjust_concurrency decides on, and whether it restarts the executor:
\* [workers, changed]
Decide(current_workers, tps, now) ==
  IF ErrorRateHigh(task_errors, total_tasks, error_threshold)
    THEN LET new_workers == Max(min_concurrency, current_workers - 1) IN
           [workers |-> new_workers, changed |-> new_workers # current_workers]
  ELSE IF TpsLow(tps, target_tps) /\ current_workers < max_concurrency
    THEN LET new_workers == Min(max_concurrency, current_workers + 1) IN
           IF HoldoffOver(now, concurrency_history)
             THEN [workers |-> new_workers, changed |-> TRUE]
             ELSE [workers |-> current_workers, changed |-> FALSE]
  ELSE IF TpsHigh(tps, target_tps)
    THEN [workers |-> Max(min_concurrency, current_workers - 1), changed |-> TRUE]
  ELSE [workers |-> current_workers, changed |-> FALSE]

\* _adjust_concurrency, the block under self.tasks_lock
AdjustApply(i) ==
  /\ task_st[i] = "adjusting"
  /\ LET d == Decide(max_workers, adj_tps[i], adj_now[i])
         history == IF d.changed
                      THEN Append(concurrency_history, << d.workers, adj_now[i] >>)
                      ELSE concurrency_history
     IN /\ max_workers' = d.workers
        /\ IF d.changed THEN Restart(d.workers) ELSE UNCHANGED pools
        /\ concurrency_history' = LastN(history, HistoryCap)
  /\ last_adjustment_time' = adj_now[i]
  /\ adj_now' = [adj_now EXCEPT ![i] = 0]
  /\ adj_tps' = [adj_tps EXCEPT ![i] = << 0, 1 >>]
  /\ task_st' = [task_st EXCEPT ![i] = "done"]
  /\ UNCHANGED << recordVars, attachVars, statsVars, levelVars, pathVars, clientVars, clock, limiterVars, rampVars, trialVars, error_types, active_tasks, total_tasks, task_errors,
                  successful_tasks, task_times, results_queue, adaptive_concurrency,
                  target_tps, min_concurrency, max_concurrency, error_threshold,
                  task_pool, task_start_time, driver >>

\* the steps of the clock that tell "more than 10 seconds" from "at least 10
\* seconds": the hold-off exactly, and just over the hold-off
HoldoffSteps == {GrowthHoldoff, GrowthHoldoff + 1}

\* time passes, by one of these steps
HoldoffTick ==
  /\ \E d \in HoldoffSteps :
       /\ clock + d <= MaxHoldoffTime
       /\ clock' = clock + d
  /\ UNCHANGED << recordVars, attachVars, statsVars, levelVars, pathVars, clientVars, limiterVars, executorVars, rampVars, trialVars >>

\* ConcurrentExecutor.get_stats(): the counts of the dictionary returned
ExecutorStats ==
  [total_tasks |-> total_tasks,
   successful_tasks |-> total_tasks - task_errors,
   failed_tasks |-> task_errors,
   current_concurrency |-> active_tasks,
   max_concurrency |-> max_workers]

\* set_max_concurrency(n), called by another thread while no resize was made yet
SetMaxConcurrency ==
  /\ Len(pools) <= MaxResizes
  /\ \E n \in 0..MaxWorkers :
       /\ max_workers # n
       /\ max_workers' = Max(1, n)
       /\ pools' = Append([pools EXCEPT ![executor].shutdown = TRUE],
                          [size |-> Max(1, n), shutdown |-> FALSE])
  /\ UNCHANGED << recordVars, attachVars, statsVars, levelVars, pathVars, clientVars, clock, limiterVars, rampVars, trialVars, error_types, active_tasks,
                  total_tasks, task_errors,
                  successful_tasks, task_times, results_queue, adaptive_concurrency,
                  target_tps, min_concurrency, max_concurrency, error_threshold,
                  last_adjustment_time, concurrency_history,
                  task_st, task_pool, task_start_time, adj_now, adj_tps, driver >>

\* wait_completion is called
WaitCompletionCall ==
  /\ driver = "submitting"
  /\ \A i \in Tasks : ~ Submitting(i)
  /\ driver' = "waiting"
  /\ UNCHANGED << recordVars, attachVars, statsVars, levelVars, pathVars, clientVars, clock, limiterVars, rampVars, trialVars, error_types, max_workers, pools, active_tasks, total_tasks,
                  task_errors, successful_tasks, task_times, results_queue,
                  adaptive_concurrency, target_tps, min_concurrency, max_concurrency,
                  error_threshold, last_adjustment_time, concurrency_history,
                  task_st, task_pool, task_start_time, adj_now, adj_tps >>

\* wait_completion finds active_tasks == 0, drains the results queue and returns
WaitCompletionReturn ==
  /\ driver = "waiting"
  /\ active_tasks = 0
  /\ driver' = "returned"
  /\ results_queue' = EmptyBag
  /\ UNCHANGED << recordVars, attachVars, statsVars, levelVars, pathVars, clientVars, clock, limiterVars, rampVars, trialVars, error_types, max_workers, pools, active_tasks, total_tasks,
                  task_errors, successful_tasks, task_times,
                  adaptive_concurrency, target_tps, min_concurrency, max_concurrency,
                  error_threshold, last_adjustment_time, concurrency_history,
                  task_st, task_pool, task_start_time, adj_now, adj_tps >>

\* time passes
ExecTick ==
  /\ clock + ExecStep <= MaxExecSteps * ExecStep
  /\ clock' = clock + ExecStep
  /\ UNCHANGED << recordVars, attachVars, statsVars, levelVars, pathVars, clientVars, limiterVars, executorVars, rampVars, trialVars >>

(***************************************************************************)
(* PerformanceTester: find_max_concurrency and find_max_tps                *)
(*                                                                         *)
(* A trial result keeps total_requests, error_count and                    *)
(* avg_response_time; error_rate and tps are derived as the code derives    *)
(* them.  tps values (a result's tps, best_tps) are held multiplied by the  *)
(* call's duration, so tps = total_requests / duration is the integer      *)
(* total_requests.  error_threshold is in percent.                         *)
(***************************************************************************)
\* error_threshold default 0.05, in percent
RampErrorThreshold == 5
\* response_time_threshold default, milliseconds
ResponseTimeThreshold == 2000
\* float('inf')
Infinity == 0 - 1
\* no report yet
NoReport == [returned |-> FALSE]
TestTypes == {"concurrency_scaling", "tps_scaling"}
Strategies == {"linear", "exponential", "binary"}
\* the arguments tried: the three strategies and an unsupported name,
\* duration in seconds, the average response times a trial may measure
StrategyNames == Strategies \cup {"other"}
Durations == {1, 2}
ResponseTimes == {1000, 3000}

\* range(start, max + 1, step), step >= 1
LinearSequence(start, max, st) ==
  IF start > max THEN << >>
  ELSE [k \in 1..((max - start) \div st + 1) |-> start + (k - 1) * st]

\* (mutant) the growth rounded up instead of truncated
GrowLevelCeiling(c, st) == (c * 3 + 1) \div 2 + st

\* "int(current * 1.5) + step", current >= 0
GrowLevel(c, st) == (c * 3) \div 2 + st

\* "while current <= max: append(current); current = int(current * 1.5) + step"
RECURSIVE ExponentialSequence(_, _, _)
ExponentialSequence(c, max, st) ==
  IF c <= max
    THEN << c >> \o ExponentialSequence(GrowLevel(c, st), max, st)
    ELSE << >>

\* (mutant) the intermediate points tripled
TripleLevel(c, end) == Min(c * 3, end)

\* "min(current * 2, end)"
DoubleLevel(c, end) == Min(c * 2, end)

\* the doubling loop of _generate_binary_search_sequence, as the set of values added
RECURSIVE Doubling(_, _)
Doubling(c, end) ==
  IF c < end
    THEN LET next == DoubleLevel(c, end) IN {next} \cup Doubling(next, end)
    ELSE {}

\* sorted(list(set(...)))
RECURSIVE SortedSeq(_)
SortedSeq(S) ==
  IF S = {} THEN << >>
  ELSE LET m == CHOOSE x \in S : \A y \in S : x <= y IN << m >> \o SortedSeq(S \ {m})

\* _generate_binary_search_sequence(start, end), start >= 1
BinarySearchSequence(start, end) ==
  IF start = end THEN << start >>
  ELSE SortedSeq({start, (start + end) \div 2, end} \cup Doubling(start, end))

\* the level sequence of a supported strategy
LevelSequence(strategy, start, max, st) ==
  CASE strategy = "linear" -> LinearSequence(start, max, st)
    [] strategy = "exponential" -> ExponentialSequence(start, max, st)
    [] strategy = "binary" -> BinarySearchSequence(start, max)

\* result['tps'], times duration
Tps(r) == r.total_requests

\* "result['error_rate'] > error_threshold"
ErrorRateExceeded(r) ==
  r.total_requests > 0 /\ r.error_count * 100 > RampErrorThreshold * r.total_requests

\* "result['avg_response_time'] > response_time_threshold"
ResponseTimeExceeded(r) == r.avg_response_time > ResponseTimeThreshold

\* a < b where b may be float('inf')
LessThan(a, b) == b = Infinity \/ (a # Infinity /\ a < b)

\* the results _run_concurrent_tests may return for a level run with the given
\* number of workers: avg_response_time is 0 when no request succeeded
TrialResults(level, workers) ==
  { [level |-> level, concurrency |-> workers, total_requests |-> n,
     error_count |-> e, avg_response_time |-> a] :
      n \in 0..MaxRequests, e \in 0..MaxRequests, a \in ResponseTimes \cup {0} }

PossibleResult(r) ==
  /\ r.error_count <= r.total_requests
  /\ (r.avg_response_time = 0) <=> (r.error_count = r.total_requests)

\* the error types _test_request reports for a failed request: one type is
\* followed, the one whose count the workers of a trial share
TrialErrorTypes == {"HTTP_500"}

\* current_path when no paths are given
NoPath == "None"

\* a search called with the given paths and path_weights, no trial running;
\* no paths (None or an empty list) is the empty set, no weights the empty
\* function
PathsAt(ps, ws) ==
  /\ paths = ps
  /\ path_weights = ws
  /\ path_total = [q \in ps |-> 0]
  /\ path_errors = [q \in ps |-> 0]

\* the values path_selector() may return
Selectable ==
  IF paths = {} THEN {NoPath}
  ELSE IF DOMAIN path_weights # {}
    THEN { q \in DOMAIN path_weights : path_weights[q] >= 1 }
  ELSE paths

\* no trial is running
TrialIdle ==
  /\ stop_time = 0
  /\ in_flight = 0
  /\ exited = 0
  /\ trial_requests = 0
  /\ trial_errors = 0
  /\ trial_time = 0
  /\ trial_error_types = [e \in TrialErrorTypes |-> 0]
  /\ counting = EmptyBag

\* no PerformanceTester search has been called
RampIdle ==
  /\ ramp_pc = "idle"
  /\ test_type = "none"
  /\ scaling_strategy = "none"
  /\ start_value = 0
  /\ max_value = 0
  /\ step = 0
  /\ duration = 0
  /\ sequence = << >>
  /\ position = 0
  /\ results = << >>
  /\ best_concurrency = 0
  /\ best_tps = 0
  /\ best_avg_response_time = Infinity
  /\ stop_event = FALSE
  /\ report = NoReport

\* http_client.rate_limiter: None, a limiter attached by the user, or the
\* RateLimiter(rate=tps, time_unit=1.0) of a trial of find_max_tps
NoLimiter == [kind |-> "none", rate |-> 0]
AttachedLimiter == [kind |-> "attached", rate |-> 1]
TrialLimiter(tps) == [kind |-> "trial", rate |-> tps]

\* an HttpClient constructed without rate limit
ClientIdle ==
  /\ rate_limiter = NoLimiter
  /\ original_rate_limiter = NoLimiter

\* the "finally" of find_max_tps: the saved limiter is put back unless it is None
Restored(tt, original, limiter) ==
  IF tt = "tps_scaling" /\ original # NoLimiter THEN original ELSE limiter

\* (mutant) the interrupted report drops the trials collected so far
InterruptedReportEmpty(start) ==
  [returned |-> TRUE, interrupted |-> TRUE, best_concurrency |-> start,
   best_tps |-> 0, detailed_results |-> << >>]

\* _generate_interrupted_report
InterruptedReport(start) ==
  LET best == IF results = << >> THEN 0
              ELSE CHOOSE k \in 1..Len(results) :
                     /\ \A j \in 1..Len(results) : Tps(results[j]) <= Tps(results[k])
                     /\ \A j \in 1..(k - 1) : Tps(results[j]) < Tps(results[k])
  IN [returned |-> TRUE, interrupted |-> TRUE,
      best_concurrency |-> IF best = 0 THEN start ELSE results[best].concurrency,
      best_tps |-> IF best = 0 THEN 0 ELSE Tps(results[best]),
      detailed_results |-> results]

\* the report built after the loop
FinalReport(bc, bt, rs) ==
  [returned |-> TRUE, interrupted |-> FALSE, best_concurrency |-> bc,
   best_tps |-> bt, detailed_results |-> rs]

\* the "finally" of both searches and the return
Finish(rep) ==
  /\ report' = rep
  /\ stop_event' = TRUE
  /\ ramp_pc' = "returned"

\* find_max_concurrency / find_max_tps is called with the given arguments:
\* self.results = [], stop_event.clear(), the best values are initialised and
\* the level sequence is generated; an unsupported strategy raises ValueError
\* inside the try
RampCallWith(tt, strategy, start, max, st, dur) ==
  /\ ramp_pc = "idle"
  /\ test_type' = tt
  /\ scaling_strategy' = strategy
  /\ start_value' = start
  /\ max_value' = max
  /\ step' = st
  /\ duration' = dur
  /\ results' = << >>
  /\ best_concurrency' = IF tt = "concurrency_scaling" THEN start ELSE 0
  /\ best_tps' = IF tt = "concurrency_scaling" THEN 0 ELSE start * dur
  /\ best_avg_response_time' = Infinity
  /\ IF strategy \in Strategies
       THEN /\ sequence' = LevelSequence(strategy, start, max, st)
            /\ position' = 1
            /\ ramp_pc' = "loop"
            /\ stop_event' = FALSE
            /\ report' = NoReport
       ELSE /\ sequence' = << >>
            /\ position' = 0
            /\ Finish([returned |-> TRUE, interrupted |-> TRUE,
                       best_concurrency |-> start, best_tps |-> 0,
                       detailed_results |-> << >>])
  /\ original_rate_limiter' =
       IF tt = "tps_scaling" THEN rate_limiter ELSE original_rate_limiter
  /\ UNCHANGED << recordVars, attachVars, statsVars, levelVars, pathVars, rate_limiter, clock, limiterVars, executorVars, trialVars >>

RampCall ==
  \E tt \in TestTypes, strategy \in StrategyNames, start \in 1..MaxLevel,
     max \in 1..MaxLevel, st \in 1..MaxStep, dur \in Durations :
       RampCallWith(tt, strategy, start, max, st, dur)

\* (mutant) a trial is better only when it also has the lower response time
BetterTrialBoth(r, bt, ba) ==
  Tps(r) > bt /\ LessThan(r.avg_response_time, ba)

\* "result['tps'] > best_tps or (result['tps'] == best_tps and
\*  result['avg_response_time'] < best_avg_response_time)"
BetterTrial(r, bt, ba) ==
  Tps(r) > bt \/ (Tps(r) = bt /\ LessThan(r.avg_response_time, ba))

\* (mutant) the best values follow only a trial above 1.1 times its target
NearTargetAbove(r, dur) == Tps(r) * 10 >= r.level * dur * 11

\* find_max_tps: "actual_tps >= tps * 0.9"
NearTarget(r, dur) == Tps(r) * 10 >= r.level * dur * 9

\* (mutant) only the error rate ends the search
ExceedsErrorRateOnly(r) == ErrorRateExceeded(r)

\* the trial ends the search: a threshold was exceeded
Exceeds(r) == ErrorRateExceeded(r) \/ ResponseTimeExceeded(r)

\* (mutant) twice the tps, without the floor
TpsWorkersDouble(level) == level * 2

\* the workers find_max_tps runs a level with: "max(tps * 2, 10)"
TpsWorkers(level) == Max(level * 2, 10)

\* find_max_concurrency, after a trial returned r: the append, the best
\* values, the threshold checks (with the binary strategy's fallback)
ConcurrencyUpdate(r) ==
  /\ results' = Append(results, r)
  /\ LET better == BetterTrial(r, best_tps, best_avg_response_time)
         fallback == /\ ErrorRateExceeded(r)
                     /\ scaling_strategy = "binary"
                     /\ Len(results) >= 1
                     /\ ~ ErrorRateExceeded(results[Len(results)])
     IN /\ best_tps' = IF better THEN Tps(r) ELSE best_tps
        /\ best_avg_response_time' =
             IF better THEN r.avg_response_time ELSE best_avg_response_time
        /\ best_concurrency' =
             IF fallback THEN results[Len(results)].concurrency
             ELSE IF better THEN r.level ELSE best_concurrency
  /\ position' = IF Exceeds(r) THEN Len(sequence) + 1 ELSE position + 1

\* find_max_tps, after a trial returned r
TpsUpdate(r) ==
  /\ results' = Append(results, r)
  /\ LET better == /\ NearTarget(r, duration)
                   /\ BetterTrial(r, best_tps, best_avg_response_time)
     IN /\ best_tps' = IF better THEN Tps(r) ELSE best_tps
        /\ best_avg_response_time' =
             IF better THEN r.avg_response_time ELSE best_avg_response_time
  /\ position' = IF Exceeds(r) THEN Len(sequence) + 1 ELSE position + 1
  /\ UNCHANGED best_concurrency

\* one pass of the loop of find_max_concurrency, the trial taken as one step
ConcurrencyTrial ==
  /\ ramp_pc = "loop" /\ test_type = "concurrency_scaling"
  /\ position <= Len(sequence) /\ ~ stop_event
  /\ \E r \in TrialResults(sequence[position], sequence[position]) :
       /\ PossibleResult(r)
       /\ ConcurrencyUpdate(r)
  /\ UNCHANGED << recordVars, attachVars, statsVars, levelVars, pathVars, clientVars, clock, limiterVars, executorVars, trialVars, ramp_pc, test_type,
                  scaling_strategy, start_value, max_value, step, duration,
                  sequence, stop_event, report >>

\* one pass of the loop of find_max_tps, the trial taken as one step
TpsTrial ==
  /\ ramp_pc = "loop" /\ test_type = "tps_scaling"
  /\ position <= Len(sequence) /\ ~ stop_event
  /\ \E r \in TrialResults(sequence[position], TpsWorkers(sequence[position])) :
       /\ PossibleResult(r)
       /\ TpsUpdate(r)
  /\ rate_limiter' = TrialLimiter(sequence[position])
  /\ UNCHANGED << recordVars, attachVars, statsVars, levelVars, pathVars, original_rate_limiter, clock, limiterVars, executorVars, trialVars, ramp_pc, test_type,
                  scaling_strategy, start_value, max_value, step, duration,
                  sequence, stop_event, report >>

\* the loop is over (the sequence is exhausted, a break, or stop_event is set):
\* the report is generated and returned
RampReturn ==
  /\ ramp_pc = "loop"
  /\ position > Len(sequence) \/ stop_event
  /\ Finish(FinalReport(best_concurrency, best_tps, results))
  /\ rate_limiter' = Restored(test_type, original_rate_limiter, rate_limiter)
  /\ UNCHANGED << recordVars, attachVars, statsVars, levelVars, pathVars, original_rate_limiter, clock, limiterVars, executorVars, trialVars, test_type, scaling_strategy,
                  start_value, max_value, step, duration, sequence, position,
                  results, best_concurrency, best_tps, best_avg_response_time >>

\* an exception is raised inside the loop (by the trial being run): the except
\* clauses return the interrupted report
RampException ==
  /\ ramp_pc = "loop"
  /\ position <= Len(sequence) /\ ~ stop_event
  /\ Finish(InterruptedReport(start_value))
  /\ rate_limiter' = Restored(test_type, original_rate_limiter, rate_limiter)
  /\ UNCHANGED << recordVars, attachVars, statsVars, levelVars, pathVars, original_rate_limiter, clock, limiterVars, executorVars, trialVars, test_type, scaling_strategy,
                  start_value, max_value, step, duration, sequence, position,
                  results, best_concurrency, best_tps, best_avg_response_time >>

\* stop_test(), from another thread, while the search runs
StopTest ==
  /\ ramp_pc \in {"loop", "trial"}
  /\ ~ stop_event
  /\ stop_event' = TRUE
  /\ UNCHANGED << recordVars, attachVars, statsVars, levelVars, pathVars, clientVars, clock, limiterVars, executorVars, trialVars, ramp_pc, test_type,
                  scaling_strategy, start_value, max_value, step, duration,
                  sequence, position, results, best_concurrency, best_tps,
                  best_avg_response_time, report >>

(***************************************************************************)
(* _run_concurrent_tests, request by request                               *)
(*                                                                         *)
(* The worker threads of a trial are counted by where they are: in_flight  *)
(* are inside _test_request, exited have left their loop, the others are   *)
(* at the head of the loop.  The trial clock counts seconds.               *)
(***************************************************************************)
\* the response time of a request that succeeds, milliseconds
RequestTimes == {1000, 3000}

\* the worker threads of the trial at the current level
TrialWorkers ==
  IF test_type = "concurrency_scaling" THEN sequence[position]
  ELSE TpsWorkers(sequence[position])

\* the workers at the head of their loop: not in _test_request, not between
\* the read and the store of an error count, not returned
AtLoopHead == TrialWorkers - in_flight - BagCardinality(counting) - exited

\* (mutant) the worker loop looks at the deadline only
MayBeginIgnoringStop == clock < stop_time

\* "while time.time() < stop_time and not self.stop_event.is_set()" and the
\* second test of stop_event under the semaphore
MayBegin == clock < stop_time /\ ~ stop_event

\* the result dictionary built from the requests of the trial
TrialResult ==
  LET success_count == trial_requests - trial_errors IN
    [level |-> sequence[position], concurrency |-> TrialWorkers,
     total_requests |-> trial_requests, error_count |-> trial_errors,
     avg_response_time |-> IF success_count > 0 THEN trial_time \div success_count
                           ELSE 0]

\* the loop finds stop_event clear and calls _run_concurrent_tests:
\* stop_time = time.time() + duration, the worker threads are started
TrialStart ==
  /\ ramp_pc = "loop"
  /\ position <= Len(sequence) /\ ~ stop_event
  /\ ramp_pc' = "trial"
  /\ stop_time' = clock + duration
  /\ in_flight' = 0
  /\ exited' = 0
  /\ trial_requests' = 0
  /\ trial_errors' = 0
  /\ trial_time' = 0
  /\ trial_error_types' = [e \in TrialErrorTypes |-> 0]
  /\ counting' = EmptyBag
  /\ rate_limiter' = IF test_type = "tps_scaling" THEN TrialLimiter(sequence[position])
                     ELSE rate_limiter
  /\ path_total' = [q \in paths |-> 0]
  /\ path_errors' = [q \in paths |-> 0]
  /\ UNCHANGED << recordVars, attachVars, statsVars, levelVars, paths, path_weights, original_rate_limiter, clock, limiterVars, executorVars, test_type, scaling_strategy,
                  start_value, max_value, step, duration, sequence, position,
                  results, best_concurrency, best_tps, best_avg_response_time,
                  stop_event, report >>

\* a worker at the head of its loop passes both tests and calls _test_request
WorkerBegin ==
  /\ ramp_pc = "trial"
  /\ AtLoopHead > 0
  /\ MayBegin
  /\ trial_requests + in_flight < MaxTrialRequests
  /\ in_flight' = in_flight + 1
  /\ UNCHANGED << recordVars, attachVars, statsVars, levelVars, pathVars, clientVars, clock, limiterVars, executorVars, rampVars, stop_time, exited,
                  trial_requests, trial_errors, trial_time, trial_error_types, counting >>

\* _test_request returns (success with its response time, or failure with its
\* error type) and the worker appends the result; after a failure it reads
\* error_types.get(error_type, 0), which no lock protects
\* With paths, the result is appended to path_results[current_path] too,
\* "if current_path and paths"; a current_path that is no key of path_results
\* raises KeyError, which ends the worker thread after the append to results.
WorkerFinish ==
  /\ ramp_pc = "trial"
  /\ in_flight > 0
  /\ in_flight' = in_flight - 1
  /\ trial_requests' = trial_requests + 1
  /\ \E current_path \in Selectable, failed \in BOOLEAN :
       LET recorded == current_path # "" /\ paths # {}
           raises == recorded /\ current_path \notin paths
       IN /\ IF failed
               THEN trial_errors' = trial_errors + 1 /\ UNCHANGED trial_time
               ELSE /\ \E t \in RequestTimes : trial_time' = trial_time + t
                    /\ UNCHANGED trial_errors
          /\ IF recorded /\ ~ raises
               THEN /\ path_total' = [path_total EXCEPT ![current_path] = @ + 1]
                    /\ path_errors' = [path_errors EXCEPT ![current_path] =
                                         IF failed THEN @ + 1 ELSE @]
               ELSE UNCHANGED << path_total, path_errors >>
          /\ exited' = IF raises THEN exited + 1 ELSE exited
          /\ IF failed /\ ~ raises
               THEN \E e \in TrialErrorTypes :
                      counting' = counting (+) SetToBag({<< e, trial_error_types[e] >>})
               ELSE UNCHANGED counting
  /\ UNCHANGED << recordVars, attachVars, statsVars, levelVars, paths, path_weights, clientVars, clock, limiterVars, executorVars, rampVars, stop_time,
                  trial_error_types >>

\* "error_types[error_type] = <the value read> + 1"
StoredCount(e, read) == read + 1

\* a worker that read the count of its error type stores the count plus one
\* and returns to the head of its loop
WorkerCount ==
  /\ ramp_pc = "trial"
  /\ \E c \in BagToSet(counting) :
       /\ trial_error_types' =
            [trial_error_types EXCEPT ![c[1]] = StoredCount(c[1], c[2])]
       /\ counting' = counting (-) SetToBag({c})
  /\ UNCHANGED << recordVars, attachVars, statsVars, levelVars, pathVars, clientVars, clock, limiterVars, executorVars, rampVars, stop_time, in_flight,
                  exited, trial_requests, trial_errors, trial_time >>

\* a worker at the head of its loop finds the deadline passed or stop_event set
WorkerExit ==
  /\ ramp_pc = "trial"
  /\ AtLoopHead > 0
  /\ ~ MayBegin
  /\ exited' = exited + 1
  /\ UNCHANGED << recordVars, attachVars, statsVars, levelVars, pathVars, clientVars, clock, limiterVars, executorVars, rampVars, stop_time, in_flight,
                  trial_requests, trial_errors, trial_time, trial_error_types, counting >>

\* every thread is joined: the result is built, and the loop of the search
\* records it
TrialJoin ==
  /\ ramp_pc = "trial"
  /\ exited = TrialWorkers
  /\ IF test_type = "concurrency_scaling"
       THEN ConcurrencyUpdate(TrialResult)
       ELSE TpsUpdate(TrialResult)
  /\ ramp_pc' = "loop"
  /\ UNCHANGED << recordVars, attachVars, statsVars, levelVars, pathVars, clientVars, clock, limiterVars, executorVars, trialVars, test_type,
                  scaling_strategy, start_value, max_value, step, duration,
                  sequence, stop_event, report >>

\* a second passes during the trial
TrialTick ==
  /\ ramp_pc = "trial"
  /\ clock < stop_time
  /\ clock' = clock + 1
  /\ UNCHANGED << recordVars, attachVars, statsVars, levelVars, pathVars, clientVars, limiterVars, executorVars, rampVars, trialVars >>

\* the searches whose trials are followed request by request: linear from 1,
\* one second per level
TrialSearchCall ==
  \E tt \in TestTypes, max \in 1..MaxTrialLevel :
    RampCallWith(tt, "linear", 1, max, 1, 1)


(***************************************************************************)
(* RateLimiter._calculate_percentile                                       *)
(***************************************************************************)
NoValue == 0 - 1
Percentiles == {0, 1, 25, 33, 34, 50, 66, 67, 75, 95, 99, 100}
SampleLists == UNION { [1..n -> 1..MaxSampleValue] : n \in 0..MaxSamples }

\* sorted(data): insertion of each element in turn
RECURSIVE Insert(_, _)
Insert(x, sq) ==
  IF sq = << >> \/ x <= Head(sq) THEN << x >> \o sq
  ELSE << Head(sq) >> \o Insert(x, Tail(sq))

RECURSIVE Sorted(_)
Sorted(sq) == IF sq = << >> THEN << >> ELSE Insert(Head(sq), Sorted(Tail(sq)))

\* (mutant) the nearest-rank index
PercentileIndexNearestRank(n, p) == Max(CeilDiv(n * p, 100) - 1, 0)

\* "index = int(len(sorted_data) * percentile / 100)", clamped to the last index
PercentileIndex(n, p) ==
  LET index == (n * p) \div 100
  IN IF index >= n THEN n - 1 ELSE index

\* _calculate_percentile(data, percentile), times 1 (0.0 for no data)
CalculatePercentile(d, p) ==
  IF d = << >> THEN 0
  ELSE Sorted(d)[PercentileIndex(Len(d), p) + 1]

StatsIdle ==
  /\ data = << >>
  /\ percentile = 0
  /\ returned = NoValue

StatsAt(d, p) ==
  /\ data = d
  /\ percentile = p
  /\ returned = NoValue

\* one call of _calculate_percentile on the arguments held
CalculatePercentileCall ==
  /\ returned = NoValue
  /\ returned' = CalculatePercentile(data, percentile)
  /\ UNCHANGED << clock, limiterVars, executorVars, rampVars, trialVars, attachVars, recordVars, pathVars, levelVars, clientVars,
                  data, percentile >>

(***************************************************************************)
(* The level sequences of find_max_concurrency and find_max_tps, generated  *)
(* iteration by iteration                                                  *)
(***************************************************************************)
\* the longest list a generation is followed to: a strictly increasing list of
\* levels within 0..MaxGenLevel is shorter
MaxGenLen == MaxGenLevel + 2

Range(sq) == { sq[k] : k \in 1..Len(sq) }

LevelsIdle ==
  /\ gen_pc = "idle"
  /\ gen_strategy = "linear"
  /\ gen_start = 0
  /\ gen_max = 0
  /\ gen_step = 0
  /\ current = 0
  /\ levels = << >>

\* the strategy branch is entered with the arguments of the search
GenerateCall ==
  /\ gen_pc = "idle"
  /\ \E strategy \in Strategies, start \in 0..MaxGenLevel, max \in 0..MaxGenLevel,
        st \in 0..MaxGenStep :
       /\ gen_strategy' = strategy
       /\ gen_start' = start
       /\ gen_max' = max
       /\ gen_step' = st
       /\ current' = start
       /\ CASE strategy = "linear" ->
                 \* range() raises ValueError for a step of zero
                 IF st = 0
                   THEN gen_pc' = "raised" /\ levels' = << >>
                   ELSE gen_pc' = "done" /\ levels' = LinearSequence(start, max, st)
            [] strategy = "exponential" ->
                 gen_pc' = "loop" /\ levels' = << >>
            [] strategy = "binary" ->
                 IF start = max
                   THEN gen_pc' = "done" /\ levels' = << start >>
                   ELSE /\ gen_pc' = "loop"
                        /\ levels' = << start, (start + max) \div 2, max >>
  /\ UNCHANGED << clock, limiterVars, executorVars, rampVars, trialVars, attachVars, recordVars, pathVars, statsVars, clientVars >>

\* one test of "while current <= max" and the iteration or the exit it leads to
ExponentialStep ==
  /\ gen_pc = "loop"
  /\ gen_strategy = "exponential"
  /\ IF current <= gen_max
       THEN /\ Len(levels) < MaxGenLen
            /\ levels' = Append(levels, current)
            /\ current' = GrowLevel(current, gen_step)
            /\ gen_pc' = "loop"
       ELSE /\ levels' = SelectSeq(levels, LAMBDA c : c <= gen_max)
            /\ gen_pc' = "done"
            /\ UNCHANGED current
  /\ UNCHANGED << clock, limiterVars, executorVars, rampVars, trialVars, attachVars, recordVars, pathVars, statsVars, clientVars,
                  gen_strategy, gen_start, gen_max, gen_step >>

\* one test of "while current < end" and the iteration or the exit it leads to
BinaryStep ==
  /\ gen_pc = "loop"
  /\ gen_strategy = "binary"
  /\ IF current < gen_max
       THEN LET next == DoubleLevel(current, gen_max)
            IN /\ current' = next
               /\ levels' = IF next \in Range(levels) THEN levels
                            ELSE Append(levels, next)
               /\ gen_pc' = "loop"
       ELSE /\ levels' = SortedSeq(Range(levels))
            /\ gen_pc' = "done"
            /\ UNCHANGED current
  /\ UNCHANGED << clock, limiterVars, executorVars, rampVars, trialVars, attachVars, recordVars, pathVars, statsVars, clientVars,
                  gen_strategy, gen_start, gen_max, gen_step >>

(***************************************************************************)
(* Specifications                                                          *)
(***************************************************************************)
NextLimiter ==
  \/ \E t \in Callers : WaitCall(t)
  \/ \E t \in Callers : WaitEnterFixed(t)
  \/ \E t \in Callers : WaitEnterToken(t)
  \/ \E t \in Callers : WaitWakeFixed(t)
  \/ \E t \in Callers : WaitWakeToken(t)
  \/ UpdateRate
  \/ Tick

InitL ==
  /\ clock = Epoch
  /\ \E m \in Modes, r \in 1..MaxRate, c \in 1..MaxRate :
       (m = "fixed" => c = r) /\ LimiterAt(m, r, c)
  /\ ExecutorAt(1, Epoch)
  /\ RampIdle
  /\ TrialIdle
  /\ StatsIdle
  /\ LevelsIdle
  /\ ClientIdle
  /\ PathsAt({}, << >>)
  /\ exec_rate_limiter = FALSE

SpecLimiter == InitL /\ [][NextLimiter]_vars

\* RateLimiter(rate = r, mode = m) with the default burst capacity
InitW ==
  /\ clock = Epoch
  /\ \E m \in Modes, r \in 1..MaxRate : LimiterAt(m, r, r)
  /\ ExecutorAt(1, Epoch)
  /\ RampIdle
  /\ TrialIdle
  /\ StatsIdle
  /\ LevelsIdle
  /\ ClientIdle
  /\ PathsAt({}, << >>)
  /\ exec_rate_limiter = FALSE

NextWindow ==
  \/ \E t \in Callers : WaitCall(t)
  \/ \E t \in Callers : WaitEnterFixed(t)
  \/ \E t \in Callers : WaitEnterToken(t)
  \/ \E t \in Callers : WaitWakeFixed(t)
  \/ \E t \in Callers : WaitWakeToken(t)
  \/ WindowTick

SpecWindow == InitW /\ [][NextWindow]_vars


InitE ==
  /\ clock = 0
  /\ LimiterAt("fixed", 1, 1)
  /\ \E mw \in InitialWorkers : ExecutorAt(mw, 0)
  /\ RampIdle
  /\ TrialIdle
  /\ StatsIdle
  /\ LevelsIdle
  /\ ClientIdle
  /\ PathsAt({}, << >>)
  /\ exec_rate_limiter = FALSE

NextExecutor ==
  \/ EnableAdaptiveConcurrency
  \/ \E i \in Tasks : Submit(i)
  \/ \E i \in Tasks : SubmitLoad(i)
  \/ \E i \in Tasks : SubmitDispatch(i)
  \/ SetMaxConcurrency
  \/ \E i \in Tasks : WorkerStart(i)
  \/ \E i \in Tasks : WorkerSuccess(i)
  \/ \E i \in Tasks : WorkerError(i)
  \/ \E i \in Tasks : AdjustCheck(i)
  \/ \E i \in Tasks : AdjustApply(i)
  \/ WaitCompletionCall
  \/ WaitCompletionReturn
  \/ ExecTick

SpecExecutor == InitE /\ [][NextExecutor]_vars

\* the lowest of the targets tried: every branch of the controller that
\* restarts the pool can be taken under it
LowTarget == CHOOSE t \in TargetValues : \A u \in TargetValues : t <= u

\* an executor with adaptive concurrency enabled from the start, its work
\* items and its clock
InitP ==
  /\ clock = 0
  /\ LimiterAt("fixed", 1, 1)
  /\ \E mw \in InitialWorkers : AdaptiveExecutorAt(mw, 0, LowTarget)
  /\ RampIdle
  /\ TrialIdle
  /\ StatsIdle
  /\ LevelsIdle
  /\ ClientIdle
  /\ PathsAt({}, << >>)
  /\ exec_rate_limiter = FALSE

NextPool ==
  \/ \E i \in Tasks : \/ Submit(i)
                       \/ SubmitLoad(i)
                       \/ SubmitDispatch(i)
                       \/ WorkerStart(i)
                       \/ WorkerSuccess(i)
                       \/ WorkerError(i)
                       \/ AdjustCheck(i)
                       \/ AdjustApply(i)
  \/ ExecTick

SpecPool == InitP /\ [][NextPool]_vars

\* ConcurrentExecutor(max_workers = mw, rate_limiter = <a limiter>), its work
\* items and its clock; the limiter is followed by what its wait() returns
InitA ==
  /\ clock = 0
  /\ LimiterAt("fixed", 1, 1)
  /\ \E mw \in InitialWorkers : ExecutorAt(mw, 0)
  /\ RampIdle
  /\ TrialIdle
  /\ StatsIdle
  /\ LevelsIdle
  /\ ClientIdle
  /\ PathsAt({}, << >>)
  /\ exec_rate_limiter = TRUE

NextAttached ==
  \/ \E i \in Tasks : \/ Submit(i)
                       \/ SubmitLoad(i)
                       \/ SubmitDispatch(i)
                       \/ WorkerStart(i)
                       \/ WorkerPermit(i)
                       \/ WorkerRefused(i)
                       \/ WorkerSuccess(i)
                       \/ WorkerError(i)
                       \/ AdjustCheck(i)
  \/ ExecTick

SpecAttached == InitA /\ [][NextAttached]_vars

\* the highest of the targets tried: the measured tps stays below it
HighTarget == CHOOSE t \in TargetValues : \A u \in TargetValues : t >= u

\* ConcurrentExecutor(max_workers = 1) followed at once by
\* enable_adaptive_concurrency(target_tps = HighTarget, max_concurrency = MaxWorkers)
InitG ==
  /\ clock = 0
  /\ LimiterAt("fixed", 1, 1)
  /\ PoolAt(1, 0)
  /\ adaptive_concurrency = TRUE
  /\ target_tps = HighTarget
  /\ min_concurrency = 1
  /\ max_concurrency = MaxWorkers
  /\ error_threshold = DefaultErrorThreshold
  /\ RampIdle
  /\ TrialIdle
  /\ StatsIdle
  /\ LevelsIdle
  /\ ClientIdle
  /\ PathsAt({}, << >>)
  /\ exec_rate_limiter = FALSE

NextGrowth ==
  \/ \E i \in Tasks : \/ Submit(i)
                       \/ SubmitLoad(i)
                       \/ SubmitDispatch(i)
                       \/ WorkerStart(i)
                       \/ WorkerSuccess(i)
                       \/ WorkerError(i)
                       \/ AdjustCheck(i)
                       \/ AdjustApply(i)
  \/ HoldoffTick

SpecGrowth == InitG /\ [][NextGrowth]_vars

\* the executor with adaptive concurrency enabled from the start, with a clock
\* that reaches several times at which a controller tick passes its interval test
SpecHistory == InitP /\ [][NextGrowth]_vars

InitR ==
  /\ clock = 0
  /\ LimiterAt("fixed", 1, 1)
  /\ ExecutorAt(1, 0)
  /\ RampIdle
  /\ TrialIdle
  /\ StatsIdle
  /\ LevelsIdle
  /\ ClientIdle
  /\ PathsAt({}, << >>)
  /\ exec_rate_limiter = FALSE

NextRamp ==
  \/ RampCall
  \/ ConcurrencyTrial
  \/ TpsTrial
  \/ RampReturn
  \/ RampException
  \/ StopTest

SpecRamp == InitR /\ [][NextRamp]_vars

\* the levels on both sides of the floor of ten workers
TpsLevels == (MaxTpsLevel - 2)..MaxTpsLevel

\* find_max_tps called on a client with or without a limiter attached
TpsSearchCall ==
  \E strategy \in Strategies, start \in TpsLevels, max \in TpsLevels,
     st \in 1..MaxStep, dur \in Durations :
       RampCallWith("tps_scaling", strategy, start, max, st, dur)

InitT ==
  /\ clock = 0
  /\ LimiterAt("fixed", 1, 1)
  /\ ExecutorAt(1, 0)
  /\ RampIdle
  /\ TrialIdle
  /\ StatsIdle
  /\ LevelsIdle
  /\ rate_limiter \in {NoLimiter, AttachedLimiter}
  /\ original_rate_limiter = NoLimiter
  /\ PathsAt({}, << >>)
  /\ exec_rate_limiter = FALSE

NextTps ==
  \/ TpsSearchCall
  \/ TpsTrial
  \/ RampReturn
  \/ RampException
  \/ StopTest

SpecTps == InitT /\ [][NextTps]_vars

NextTrial ==
  \/ TrialSearchCall
  \/ TrialStart
  \/ WorkerBegin
  \/ WorkerFinish
  \/ WorkerCount
  \/ WorkerExit
  \/ TrialJoin
  \/ TrialTick
  \/ RampReturn
  \/ RampException
  \/ StopTest

SpecTrial == InitR /\ [][NextTrial]_vars

\* every thread keeps running, every request in flight terminates, and time
\* passes; stop_test() and exceptions may or may not happen
FairTrial ==
  /\ WF_vars(TrialStart)
  /\ WF_vars(WorkerBegin)
  /\ WF_vars(WorkerFinish)
  /\ WF_vars(WorkerCount)
  /\ WF_vars(WorkerExit)
  /\ WF_vars(TrialJoin)
  /\ WF_vars(TrialTick)
  /\ WF_vars(RampReturn)

SpecTrialFair == SpecTrial /\ FairTrial

\* the paths and path_weights arguments tried: none; two paths chosen with
\* equal chances; two paths with weights; an empty path among the paths; a
\* weight given for a path that is not among the paths
PathArguments ==
  { << {}, << >> >>,
    << {"/a", "/b"}, << >> >>,
    << {"/a", "/b"}, ("/a" :> 1 @@ "/b" :> 2) >>,
    << {"", "/a"}, << >> >>,
    << {"/a"}, ("/a" :> 1 @@ "/b" :> 1) >> }

InitPaths ==
  /\ clock = 0
  /\ LimiterAt("fixed", 1, 1)
  /\ ExecutorAt(1, 0)
  /\ RampIdle
  /\ TrialIdle
  /\ StatsIdle
  /\ LevelsIdle
  /\ ClientIdle
  /\ \E a \in PathArguments : PathsAt(a[1], a[2])
  /\ exec_rate_limiter = FALSE

SpecPaths == InitPaths /\ [][NextTrial]_vars

InitS ==
  /\ clock = 0
  /\ LimiterAt("fixed", 1, 1)
  /\ ExecutorAt(1, 0)
  /\ RampIdle
  /\ TrialIdle
  /\ LevelsIdle
  /\ \E d \in SampleLists, p \in Percentiles : StatsAt(d, p)
  /\ ClientIdle
  /\ PathsAt({}, << >>)
  /\ exec_rate_limiter = FALSE

NextStats == CalculatePercentileCall

SpecStats == InitS /\ [][NextStats]_vars

NextLevels ==
  \/ GenerateCall
  \/ ExponentialStep
  \/ BinaryStep

SpecLevels == InitR /\ [][NextLevels]_vars

\* the generating thread keeps running
FairLevels == WF_vars(ExponentialStep) /\ WF_vars(BinaryStep)

SpecLevelsFair == SpecLevels /\ FairLevels

(***************************************************************************)
(* Properties of the RateLimiter                                           *)
(***************************************************************************)

\* C6: in token-bucket mode the bucket never holds more than capacity tokens,
\* in any state between calls of wait() and update_rate().
C6_TokensWithinCapacity ==
  mode = "token_bucket" => tokens <= capacity * TimeUnit

\* C7: in fixed mode every grant is at least one interval (time_unit / rate)
\* after the grant before it, whichever callers the two grants went to.
C7_FixedSpacing ==
  [][(mode = "fixed" /\ request_count >= 1 /\ request_count' = request_count + 1)
       => (last_request_time' - last_request_time) * rate >= TimeUnit]_vars

\* C7 witness: a second grant, made after the first caller's grant and a sleep.
C7_Witness ==
  mode = "fixed" /\ request_count = 2 /\ last_request_time > Epoch

\* C8: a caller of wait(timeout = T) is never still inside wait() more than T
\* after it invoked it; stated for a caller queued on the lock behind a holder
\* that is inside its own time.sleep.
C8_ReturnsWithinTimeout ==
  \A t \in Callers :
    ( /\ pc[t] = "lock" /\ timeout[t] # NoTimeout
      /\ lock # NoOwner /\ pc[lock] = "sleep" /\ clock < wake_at[lock] )
    => clock - start_wait_time[t] <= timeout[t]

\* C9: wait() returns False exactly when a timeout was given and the wait the
\* limiter needs (the rest of the interval in fixed mode, the time to refill
\* one token in token-bucket mode) exceeds it; every other return is a grant.
C9_FalseOnlyOnTimeout ==
  [][\A t \in Callers :
       (pc[t] # "idle" /\ pc'[t] = "idle") =>
         LET refilled == Min(capacity * TimeUnit,
                             tokens + Max(0, clock - last_token_time) * capacity)
             exceeds == IF mode = "fixed"
                          THEN TimeUnit - (clock - last_request_time) * rate
                                 > timeout[t] * rate
                          ELSE TimeUnit - refilled > timeout[t] * capacity
         IN /\ (rejected_count' = rejected_count + 1)
                 <=> (pc[t] = "lock" /\ timeout[t] # NoTimeout /\ exceeds)
            /\ (rejected_count' = rejected_count)
                 <=> (request_count' = request_count + 1)
    ]_vars

\* C9 witness: one call has been refused and another granted.
C9_Witness ==
  rejected_count >= 1 /\ request_count >= 1

(***************************************************************************)
(* Properties of the ConcurrentExecutor                                    *)
(***************************************************************************)

\* C1: once at least one work item was submitted and every submitted item has
\* finished _worker_wrapper, active_tasks is zero (so that wait_completion,
\* which polls active_tasks == 0, returns).
C1_ActiveZeroWhenAllFinished ==
  ( /\ \E i \in Tasks : task_st[i] # "new"
    /\ \A i \in Tasks : task_st[i] \in {"new", "done"} )
  => active_tasks = 0

\* C2: with min_concurrency <= max_concurrency, every run of the locked block
\* of _adjust_concurrency leaves max_workers within
\* [min_concurrency, max_concurrency], whatever the initial pool size.
C2_WorkersWithinRange ==
  [][( /\ \E i \in Tasks : task_st[i] = "adjusting" /\ task_st'[i] = "done"
       /\ min_concurrency <= max_concurrency )
       => (min_concurrency <= max_workers' /\ max_workers' <= max_concurrency)]_vars

(***************************************************************************)
(* Properties of the searches                                              *)
(***************************************************************************)
\* a trial result within both thresholds of the call: error rate at most 5 %,
\* average response time at most 2000 ms
WithinThresholds(r) ==
  /\ r.error_count * 100 <= 5 * r.total_requests
  /\ r.avg_response_time <= 2000

\* a report of the given search has been returned
Reported(tt) == report.returned /\ test_type = tt

\* C3: when find_max_concurrency returns its report and some trial stayed
\* within both thresholds, best_concurrency is the level of a trial that
\* stayed within both thresholds.
C3_BestConcurrencyPassed ==
  (/\ Reported("concurrency_scaling")
   /\ ~ report.interrupted
   /\ \E k \in 1..Len(report.detailed_results) :
        WithinThresholds(report.detailed_results[k]))
  => \E k \in 1..Len(report.detailed_results) :
       /\ WithinThresholds(report.detailed_results[k])
       /\ report.detailed_results[k].level = report.best_concurrency

\* C4: in a report of find_max_concurrency, best_tps is at least the tps of
\* every trial in detailed_results that stayed within both thresholds.
C4_BestTpsDominates ==
  Reported("concurrency_scaling")
  => \A k \in 1..Len(report.detailed_results) :
       WithinThresholds(report.detailed_results[k])
       => report.best_tps >= report.detailed_results[k].total_requests

\* a find_max_concurrency report whose best_tps comes from a trial within the
\* thresholds, followed by a slower trial that ended the search
C4_Witness ==
  /\ Reported("concurrency_scaling")
  /\ ~ report.interrupted
  /\ Len(report.detailed_results) >= 2
  /\ WithinThresholds(report.detailed_results[1])
  /\ report.detailed_results[1].total_requests = report.best_tps
  /\ report.best_tps > 0
  /\ ~ WithinThresholds(report.detailed_results[Len(report.detailed_results)])

C10_ViolatingTrialIsLast ==
  \A k \in 1..(Len(results) - 1) : WithinThresholds(results[k])

\* a report of at least two trials whose last trial exceeded only the
\* response-time threshold
C10_Witness ==
  /\ report.returned
  /\ ~ report.interrupted
  /\ Len(report.detailed_results) >= 2
  /\ report.detailed_results[Len(report.detailed_results)].error_count = 0
  /\ ~ WithinThresholds(report.detailed_results[Len(report.detailed_results)])

\* C11: when stop_test() was called while the search was running, the report
\* returned is flagged interrupted and holds exactly the trials completed so far.
C11_StopYieldsInterruptedReport ==
  [][(ramp_pc = "loop" /\ stop_event /\ ramp_pc' = "returned")
     => (report'.interrupted /\ report'.detailed_results = results)]_vars

\* C12: when an exception is raised inside the loop after k trials, the call
\* returns (nothing is propagated) a report flagged interrupted whose
\* detailed_results are exactly those k trials.
C12_ExceptionYieldsInterruptedReport ==
  [][(ramp_pc = "loop" /\ ~ stop_event /\ position <= Len(sequence)
        /\ ramp_pc' # "loop" /\ results' = results)
     => (/\ ramp_pc' = "returned"
         /\ report'.returned
         /\ report'.interrupted
         /\ report'.detailed_results = results)]_vars

\* an interrupted report, returned after an exception, that holds two trials
C12_Witness ==
  /\ ramp_pc = "returned"
  /\ report.interrupted
  /\ Len(results) = 2
  /\ report.detailed_results = results

\* the outcome that ends the loop in the current state: levels are left only
\* when stop_test() or an exception ends it
ActualReason ==
  IF position <= Len(sequence) THEN "interrupted"
  ELSE IF results # << >> /\ ~ WithinThresholds(results[Len(results)])
    THEN "threshold_exceeded"
  ELSE "max_level_reached"

\* the most that can be read from a report about why the search ended
ReasonRead(rep) ==
  IF rep.interrupted THEN "interrupted"
  ELSE IF rep.detailed_results # << >>
          /\ ~ WithinThresholds(rep.detailed_results[Len(rep.detailed_results)])
    THEN "threshold_exceeded"
  ELSE "max_level_reached"

\* C14: every report returned tells which of the three outcomes ended the
\* search: a threshold was exceeded, the maximum level was reached, or the
\* search was interrupted.
C14_ReportTellsReason ==
  [][(ramp_pc = "loop" /\ ramp_pc' = "returned")
     => ReasonRead(report') = ActualReason]_vars

\* C15: a call with an invalid strategy name raises to the caller and returns
\* no report.
C15_InvalidStrategyRaises ==
  (test_type # "none" /\ scaling_strategy \notin Strategies)
  => (ramp_pc = "raised" /\ ~ report.returned)

\* C20: find_max_tps with start_tps = max_tps, run to the end of its loop,
\* has run exactly one trial; the best it reports is that trial's tps when
\* the trial is within both thresholds and zero when it is not.
C20_DegenerateTpsSearch ==
  [][(/\ ramp_pc = "loop" /\ test_type = "tps_scaling"
      /\ start_value = max_value
      /\ ~ stop_event /\ position > Len(sequence)
      /\ ramp_pc' = "returned")
     => (/\ Len(report'.detailed_results) = 1
         /\ report'.best_tps =
              IF WithinThresholds(report'.detailed_results[1])
                THEN report'.detailed_results[1].total_requests
                ELSE 0)]_vars

TuplesOf(i) ==
  { t \in BagToSet(results_queue) : t.task_id = i }

\* the number of result tuples of work item i on the results queue
CountOf(i) ==
  LET S == TuplesOf(i) IN
    IF S = {} THEN 0
    ELSE IF Cardinality(S) = 1
           THEN CopiesIn(CHOOSE t \in S : TRUE, results_queue)
    ELSE 2

\* work item i has left the try/except/finally of _worker_wrapper
Finished(i) == task_st[i] \in {"finalized", "adjusting", "done"}

\* some thread of the pool of work item i is busy with another item
PoolBusy(i) ==
  \E j \in Tasks : /\ task_pool[j] = task_pool[i]
                   /\ task_st[j] \in {"waiting", "running", "finalized", "adjusting"}

\* work item i, submitted and not finished, is not stuck: it is being run, or
\* a thread of its pool can take it, or one is busy and will take it later
NotStuck(i) ==
  /\ task_st[i] = "queued" => (ENABLED WorkerStart(i) \/ PoolBusy(i))
  /\ task_st[i] = "waiting" => ENABLED WorkerPermit(i)
  /\ task_st[i] = "running" => (ENABLED WorkerSuccess(i) /\ ENABLED WorkerError(i))
  /\ task_st[i] = "finalized" => ENABLED AdjustCheck(i)
  /\ task_st[i] = "adjusting" => ENABLED AdjustApply(i)

\* C16: every submitted work item is executed and puts exactly one tuple on
\* the results queue, a result or an error; a work item that raises adds one
\* to task_errors and one to the count of its exception type, and one that
\* returns adds to neither; under any interleaving of the workers.
C16_FailuresAreIsolated ==
  /\ [](\A i \in Tasks : /\ CountOf(i) = IF Finished(i) THEN 1 ELSE 0
                         /\ NotStuck(i))
  /\ [][\A i \in Tasks :
          (task_st[i] = "running" /\ task_st'[i] # "running")
          => \E t \in BagToSet(results_queue') :
               /\ t.task_id = i
               /\ IF t.error = "None"
                    THEN /\ task_errors' = task_errors
                         /\ error_types' = error_types
                    ELSE /\ task_errors' = task_errors + 1
                         /\ error_types'[t.error] = error_types[t.error] + 1
                         /\ \A e \in ErrorTypeNames \ {t.error} :
                              error_types'[e] = error_types[e]]_vars

\* two work items raised the same exception type and a third item, or the
\* same two, finished: both are on the queue and counted
C16_Witness ==
  /\ \A i \in Tasks : task_st[i] = "done"
  /\ task_errors = 2
  /\ \E e \in ErrorTypeNames : error_types[e] = 2

\* the pool of work item i was shut down by a resize
OnOldPool(i) == task_pool[i] >= 1 /\ pools[task_pool[i]].shutdown

\* C18: a work item queued or in flight on the old pool when the controller
\* resizes still runs to completion, and records exactly one result in the
\* results queue and in the counters of the executor.
C18_OldPoolItemsComplete ==
  /\ \A i \in Tasks :
       OnOldPool(i) => /\ NotStuck(i)
                       /\ CountOf(i) = IF Finished(i) THEN 1 ELSE 0
  /\ (\E i \in Tasks : OnOldPool(i))
       => successful_tasks + task_errors = Cardinality({i \in Tasks : Finished(i)})

\* the controller has resized, shutting down a pool on which a work item is
\* still queued or in flight
C18_Witness ==
  \E i \in Tasks :
    /\ OnOldPool(i)
    /\ task_st[i] \in {"queued", "running"}
    /\ Len(pools) >= 2

\* C17: two resizes of the pool are never closer in time than the adjustment
\* interval, even when several workers run the controller tick at once.
C17_OneResizePerInterval ==
  \A k \in 2..(Len(concurrency_history) - 1) :
    (/\ concurrency_history[k][1] # concurrency_history[k - 1][1]
     /\ concurrency_history[k + 1][1] # concurrency_history[k][1])
    => concurrency_history[k + 1][2] - concurrency_history[k][2] >= AdjustmentInterval

\* C19: a controller tick that finds the share of failed work items among the
\* completed ones above the error threshold, with the pool above its minimum,
\* lowers the pool size by exactly one, whatever the TPS.
C19_ErrorRateShrinks ==
  [][\A i \in Tasks :
       (/\ task_st[i] = "adjusting" /\ task_st'[i] = "done"
        /\ task_errors * 100 > error_threshold * (successful_tasks + task_errors)
        /\ max_workers > min_concurrency)
       => max_workers' = max_workers - 1]_vars

(***************************************************************************)
(* Properties of the token bucket and of the statistics                    *)
(***************************************************************************)
\* C21: in token-bucket mode, from a full bucket of capacity C and with no
\* time elapsing, the first C calls of wait() are granted at once and the
\* next call is not: it has to wait (it sleeps, or is rejected by its timeout).
C21_FullBucketGrantsCapacity ==
  [][\A t \in Callers :
       (/\ mode = "token_bucket"
        /\ clock = Epoch
        /\ request_count <= capacity
        /\ tokens = (capacity - request_count) * TicksPerUnit
        /\ pc[t] = "lock" /\ pc'[t] # "lock")
       => IF request_count < capacity
            THEN /\ pc'[t] = "idle"
                 /\ request_count' = request_count + 1
                 /\ rejected_count' = rejected_count
            ELSE /\ request_count' = request_count
                 /\ (pc'[t] = "sleep" \/ rejected_count' = rejected_count + 1)]_vars

\* a bucket of capacity 2 has granted two calls with no time elapsed and the
\* third call is asleep
C21_Witness ==
  /\ mode = "token_bucket"
  /\ clock = Epoch
  /\ capacity = 2
  /\ request_count = 2
  /\ tokens = 0
  /\ \E t \in Callers : pc[t] = "sleep"

\* C22: after wait() calls, the dictionary of get_stats() reports the number of
\* waits that returned true as its total and the number of waits that returned
\* false as its rejected count.
C22_StatsReportBothCounts ==
  (request_count + rejected_count >= 1)
  => /\ GetStats.total_requests = request_count
     /\ "rejected_requests" \in DOMAIN GetStats
     /\ GetStats.rejected_requests = rejected_count

(***************************************************************************)
(* Properties of _calculate_percentile and of the level sequences          *)
(***************************************************************************)
\* C23: for a non-empty list of n samples and a percentile p in 0..100,
\* _calculate_percentile returns the element at index min(floor(n*p/100), n-1)
\* of the samples in ascending order: a sample with at most that many samples
\* below it and more than that many samples not above it.
C23_PercentileIsOrderStatistic ==
  (returned # NoValue /\ data # << >>)
  => LET n == Len(data)
         k == Min((n * percentile) \div 100, n - 1)
         below == Cardinality({ i \in 1..n : data[i] < returned })
         atMost == Cardinality({ i \in 1..n : data[i] <= returned })
     IN /\ returned \in Range(data)
        /\ below <= k
        /\ k < atMost

\* the median of two samples given in descending order is the larger one
C23_Witness ==
  /\ data = << 2, 1 >>
  /\ percentile = 50
  /\ returned = 2

\* C28: with the exponential strategy, start >= 1, step >= 1 and max >= start,
\* the levels are c0 = start, c(i+1) = floor(1.5 * c(i)) + step, cut at the
\* first value above max: every level is at most max and the levels strictly
\* increase.
C28_ExponentialLevels ==
  (/\ gen_pc = "done" /\ gen_strategy = "exponential"
   /\ gen_start >= 1 /\ gen_step >= 1 /\ gen_max >= gen_start)
  => /\ Len(levels) >= 1
     /\ levels[1] = gen_start
     /\ \A i \in 1..(Len(levels) - 1) :
          /\ levels[i + 1] = (3 * levels[i]) \div 2 + gen_step
          /\ levels[i] < levels[i + 1]
     /\ \A i \in 1..Len(levels) : levels[i] <= gen_max
     /\ (3 * levels[Len(levels)]) \div 2 + gen_step > gen_max

\* from 1 to 6 by step 1: 1, 2, 4 (the next value, 7, is above 6)
C28_Witness ==
  /\ gen_pc = "done" /\ gen_strategy = "exponential"
  /\ gen_start = 1 /\ gen_step = 1 /\ gen_max = 6
  /\ levels = << 1, 2, 4 >>

RECURSIVE Pow2(_)
Pow2(k) == IF k = 0 THEN 1 ELSE 2 * Pow2(k - 1)

\* C29: for 1 <= start <= max, _generate_binary_search_sequence returns the
\* ascending duplicate-free list of exactly start, floor((start + max) / 2), max
\* and the values min(start * 2^k, max) for k >= 1; it is [start] when
\* start = max.
C29_BinaryLevels ==
  (/\ gen_pc = "done" /\ gen_strategy = "binary"
   /\ 1 <= gen_start /\ gen_start <= gen_max)
  => /\ Range(levels) =
          {gen_start, (gen_start + gen_max) \div 2, gen_max}
            \cup { Min(gen_start * Pow2(k), gen_max) : k \in 1..(MaxGenLevel + 1) }
     /\ \A i \in 1..(Len(levels) - 1) : levels[i] < levels[i + 1]
     /\ (gen_start = gen_max => levels = << gen_start >>)

\* from 1 to 6: the ends, the midpoint 3 and the doublings 2 and 4
C29_Witness ==
  /\ gen_pc = "done" /\ gen_strategy = "binary"
  /\ gen_start = 1 /\ gen_max = 6
  /\ levels = << 1, 2, 3, 4, 6 >>

\* C30: for every strategy and all integers start >= 0, max and step >= 0, the
\* generation of the level sequence terminates, and every level generated lies
\* between start and max (so there is none when start > max).
C30_GenerationTerminatesInRange ==
  /\ [](gen_pc = "done"
        => \A i \in 1..Len(levels) : gen_start <= levels[i] /\ levels[i] <= gen_max)
  /\ (gen_pc = "loop" ~> gen_pc = "done")

(***************************************************************************)
(* Properties of the binary strategy's fallback                            *)
(***************************************************************************)
\* C25: with the binary strategy, when find_max_concurrency stops because a
\* trial exceeded a threshold (error rate or average response time) and the
\* trial before it was within both thresholds, best_concurrency becomes the
\* level of that previous trial.
C25_BinaryFallsBackToPrevious ==
  [][(/\ ramp_pc = "loop" /\ test_type = "concurrency_scaling"
      /\ scaling_strategy = "binary"
      /\ Len(results) >= 1
      /\ Len(results') = Len(results) + 1
      /\ LET last == results'[Len(results')]
         IN ErrorRateExceeded(last) \/ ResponseTimeExceeded(last)
      /\ WithinThresholds(results[Len(results)]))
     => best_concurrency' = results[Len(results)].concurrency]_vars

(***************************************************************************)
(* Properties of the growth of the pool                                    *)
(***************************************************************************)
\* the tick of work item i: the block of _adjust_concurrency under the lock
TickOf(i) == task_st[i] = "adjusting" /\ task_st'[i] = "done"

\* the share of failed items among the completed ones is within the threshold
ErrorRateWithin ==
  task_errors * 100 <= error_threshold * (task_errors + successful_tasks)

\* the tps measured by the tick of i is below 0.9 x target_tps (in tenths)
TpsBelowTarget(i) == adj_tps[i][1] * 100 < 9 * target_tps * adj_tps[i][2]

\* the entries of concurrency_history that record a growth of the pool
Growths ==
  { k \in 2..Len(concurrency_history) :
      concurrency_history[k][1] > concurrency_history[k - 1][1] }

\* the time of the last growth, when there was one
LastGrowth ==
  concurrency_history[CHOOSE k \in Growths : \A j \in Growths : j <= k][2]

\* the time of the last entry of concurrency_history: the construction or the
\* last change of the pool size
LastChange == concurrency_history[Len(concurrency_history)][2]

RECURSIVE SumOver(_, _)
SumOver(f, S) ==
  IF S = {} THEN 0
  ELSE LET x == CHOOSE y \in S : TRUE IN f[x] + SumOver(f, S \ {x})

\* C27: in the result of every trial, whatever the interleaving of the worker
\* threads, the counts of error_types add up to error_count, and the
\* successes and the errors add up to total_requests.
C27_ErrorTypesAddUp ==
  (ramp_pc = "trial" /\ exited = TrialWorkers)
  => /\ SumOver(trial_error_types, TrialErrorTypes) = TrialResult.error_count
     /\ TrialResult.error_count <= TrialResult.total_requests

(***************************************************************************)
(* Properties of submit() during a resize                                  *)
(***************************************************************************)
\* C24: a submit() that runs concurrently with a resize by the controller or
\* by set_max_concurrency hands its item to a live pool: the pool's submit is
\* never refused because the pool was shut down, and no item that was counted
\* in active_tasks is left without a pool to run it.
C24_SubmitReachesLivePool ==
  [][\A i \in Tasks :
       (task_st[i] = "loaded" /\ task_st'[i] # "loaded")
       => /\ ~ pools[task_pool[i]].shutdown
          /\ task_st'[i] = "queued"]_vars

(***************************************************************************)
(* Properties of the statistics and of the history of the executor         *)
(***************************************************************************)
\* the work items that left _worker_wrapper with the given kind of outcome:
\* raised (an error tuple on the results queue) or returned (a result tuple)
Outcomes(raised) ==
  { i \in Tasks : \E t \in TuplesOf(i) : (t.error # "None") = raised }

\* C31: every work item is counted exactly once: when all the submitted items
\* have completed, total_tasks is the number of submit calls, and get_stats()
\* reports as successful_tasks the number of items that returned and as
\* failed_tasks the number of items that raised.
C31_ItemsCountedOnce ==
  ( /\ driver = "submitting"
    /\ \E i \in Tasks : task_st[i] # "new"
    /\ \A i \in Tasks : task_st[i] \in {"new", "done"} )
  => /\ total_tasks = Cardinality({ i \in Tasks : task_st[i] # "new" })
     /\ ExecutorStats.successful_tasks = Cardinality(Outcomes(FALSE))
     /\ ExecutorStats.failed_tasks = Cardinality(Outcomes(TRUE))

\* C32: a controller tick replaces the pool and appends an entry to
\* concurrency_history only when the pool size changes; a tick that leaves the
\* size as it was (a shrink decided at min_concurrency, say) leaves the
\* executor and the history untouched.
C32_UnchangedSizeIsNoResize ==
  [][\A i \in Tasks :
       (TickOf(i) /\ max_workers' = max_workers)
       => /\ pools' = pools
          /\ concurrency_history' = concurrency_history]_vars

(***************************************************************************)
(* Properties of the trials of find_max_tps                                *)
(***************************************************************************)
\* C33: when find_max_tps has returned, by normal completion, early stop or
\* exception, http_client.rate_limiter is the value it had before the call,
\* also when that value was None.
C33_RateLimiterRestored ==
  (ramp_pc = "returned" /\ test_type = "tps_scaling")
  => rate_limiter = original_rate_limiter

\* the step of find_max_tps that runs and records the trial of a level
TpsTrialStep ==
  /\ ramp_pc = "loop" /\ test_type = "tps_scaling"
  /\ Len(results') = Len(results) + 1

\* C34 (as stated): every trial of find_max_tps at level L runs with exactly
\* 2 * L workers and a RateLimiter of L permits per second.
C34_TwiceTheLevel ==
  [][TpsTrialStep
     => LET L == sequence[position] IN
          /\ results'[Len(results')].concurrency = 2 * L
          /\ rate_limiter' = [kind |-> "trial", rate |-> L]]_vars

\* C34 (amended): every trial of find_max_tps at level L runs with 2 * L
\* workers, but never fewer than 10, and a RateLimiter of L permits per second.
C34_TwiceTheLevelAtLeastTen ==
  [][TpsTrialStep
     => LET L == sequence[position] IN
          /\ results'[Len(results')].concurrency = IF 2 * L >= 10 THEN 2 * L ELSE 10
          /\ rate_limiter' = [kind |-> "trial", rate |-> L]]_vars

\* a trial at 6 requests per second ran with 12 workers after one at 4 with 10
C34_Witness ==
  /\ test_type = "tps_scaling"
  /\ Len(results) = 2
  /\ results[1].level = 4 /\ results[1].concurrency = 10
  /\ results[2].level = 6 /\ results[2].concurrency = 12
  /\ rate_limiter = [kind |-> "trial", rate |-> 6]

\* C35: when a trial is run with paths, with or without path_weights, the
\* totals per path of path_stats add up to the trial's total_requests and the
\* error counts per path add up to its error_count, whatever the paths and
\* path_weights arguments.
C35_PathStatsAddUp ==
  (ramp_pc = "trial" /\ exited = TrialWorkers /\ paths # {})
  => /\ SumOver(path_total, paths) = TrialResult.total_requests
     /\ SumOver(path_errors, paths) = TrialResult.error_count

\* the results-queue tuples of work item i in queue q
RecordsOf(q, i) == {t \in BagToSet(q) : t.task_id = i}

\* C36: with a rate limiter attached to the executor, a work item starts
\* executing only after wait() has granted its permit; when wait() returns
\* false the work item is not executed and exactly one failure record is
\* produced for it.
C36_PermitBeforeExecution ==
  [][exec_rate_limiter =>
       \A i \in Tasks :
         /\ (task_st'[i] = "running" /\ task_st[i] # "running")
              => (task_st[i] = "waiting" /\ results_queue' = results_queue)
         /\ (task_st[i] = "waiting" /\ task_st'[i] \notin {"waiting", "running"})
              => /\ Finished(i)'
                 /\ RecordsOf(results_queue, i) = {}
                 /\ RecordsOf(results_queue', i) = {ResultTuple(i, RateLimitError)}
                 /\ CopiesIn(ResultTuple(i, RateLimitError), results_queue') = 1
                 /\ task_errors' = task_errors + 1
                 /\ successful_tasks' = successful_tasks
         /\ (Finished(i) /\ RecordsOf(results_queue, i) = {ResultTuple(i, RateLimitError)})
              => RecordsOf(results_queue', i) = RecordsOf(results_queue, i)]_vars

\* one work item was refused its permit and has its failure record, another
\* was granted its permit and returned
C36_Witness ==
  /\ exec_rate_limiter
  /\ \E i, j \in Tasks :
       /\ Finished(i)
       /\ RecordsOf(results_queue, i) = {ResultTuple(i, RateLimitError)}
       /\ Finished(j)
       /\ RecordsOf(results_queue, j) = {ResultTuple(j, "None")}

\* C37: in token-bucket mode with a capacity of at least 1, tokens is never
\* negative, and a permit is consumed only when at least one whole token is
\* there after the refill; under any interleaving of the callers of wait()
\* and of update_rate().
C37_TokensNeverNegative ==
  /\ []((mode = "token_bucket" /\ capacity >= 1) => tokens >= 0)
  /\ [][(mode = "token_bucket" /\ capacity >= 1 /\ request_count' = request_count + 1)
         => LET a == AddTokens(tokens, last_token_time, capacity, clock) IN
              /\ a.tokens >= TimeUnit
              /\ tokens' = a.tokens - TimeUnit]_vars

\* the bucket, refilled since its construction, is empty after two permits
\* and a caller sleeps for the next token
C37_Witness ==
  /\ mode = "token_bucket"
  /\ capacity >= 1
  /\ request_count >= 2
  /\ tokens = 0
  /\ last_token_time > Epoch
  /\ \E t \in Callers : pc[t] = "sleep"

\* the timestamps of the entries of history do not decrease
Chronological(history) ==
  \A k \in 1..(Len(history) - 1) : history[k][2] <= history[k + 1][2]

\* C38: after every controller tick concurrency_history holds at most 100
\* entries, the most recent ones, in chronological order.
C38_HistoryBounded ==
  /\ Len(concurrency_history) <= HistoryCap
  /\ Chronological(concurrency_history)

\* the time of the latest grant
LatestGrant == request_timestamps[Len(request_timestamps)]

====
